---- MODULE Spec2Model ----
(***************************************************************************)
(* A state-machine model of pandas' objToJSON.c: the type dispatcher       *)
(* (Object_beginTypeContext), the iterator drivers (DataFrame, Series,     *)
(* Index, numpy array strider), the label pre-encoder and the top-level    *)
(* entry objToJSON, driven by the ultrajson writer's recursive encode().   *)
(*                                                                         *)
(* Text is modelled at character level: a C string is a sequence of        *)
(* one-character strings, terminated by NUL where the C code relies on     *)
(* the terminator.  64-bit integers are modelled at a reduced width (TLC   *)
(* integers are 32 bit): the not-a-time sentinel NPY_MIN_INT64 is the      *)
(* smallest value of the reduced width.                                    *)
(***************************************************************************)
EXTENDS Integers, Sequences, FiniteSets, TLC

(***************************************************************************)
(* Bounds of the model                                                     *)
(***************************************************************************)
MaxRows == 2
MaxCols == 2
\* the largest size of one axis of a k-dimensional array
MaxAxis == 2
MaxLabels == 3

(***************************************************************************)
(* Text helpers                                                            *)
(***************************************************************************)
NUL == "NUL"
DigitChars == <<"0", "1", "2", "3", "4", "5", "6", "7", "8", "9">>

RECURSIVE NatToChars(_)
NatToChars(n) ==
    IF n < 10 THEN <<DigitChars[n + 1]>>
    ELSE NatToChars(n \div 10) \o <<DigitChars[(n % 10) + 1]>>

\* the writer's Buffer_AppendLongUnchecked: decimal, '-' for negatives
Buffer_AppendLong(i) == IF i < 0 THEN <<"-">> \o NatToChars(-i) ELSE NatToChars(i)

\* the writer's Buffer_AppendDoubleUnchecked for a finite value held in tenths
Buffer_AppendDouble(t) ==
    IF t < 0 THEN <<"-">> \o NatToChars((-t) \div 10) \o <<".", DigitChars[((-t) % 10) + 1]>>
    ELSE NatToChars(t \div 10) \o <<".", DigitChars[(t % 10) + 1]>>

\* the writer's quoting of a string value or key (no character of the model
\* needs escaping)
Buffer_Quote(s) == <<"\"">> \o s \o <<"\"">>

\* C strlen: the number of characters before the first NUL
strlen(s) == (CHOOSE i \in 1..Len(s) : s[i] = NUL /\ \A j \in 1..(i - 1) : s[j] # NUL) - 1

\* the first n characters of s starting at 0-based offset off (memcpy out of s)
Slice(s, off, n) == [i \in 1..n |-> s[off + i]]

\* C integer division: truncation toward zero
CDiv(a, b) == IF a >= 0 THEN a \div b ELSE -((-a) \div b)

RECURSIVE Flatten(_)
Flatten(ss) == IF ss = <<>> THEN <<>> ELSE Head(ss) \o Flatten(Tail(ss))

(***************************************************************************)
(* Python objects.  Every object is a record with a kind field k.          *)
(***************************************************************************)
PyNULL == [k |-> "NULL"]
PyNone == [k |-> "none"]
\* bool is a subclass of int: a boolean also carries its integer value
PyBool(b) == [k |-> "bool", b |-> b, n |-> IF b THEN 1 ELSE 0, big |-> FALSE]
\* big: the value lies outside the signed 64-bit range
PyInt(n) == [k |-> "int", n |-> n, big |-> FALSE]
PyBigInt == [k |-> "int", n |-> 0, big |-> TRUE]
PyFloat(t) == [k |-> "float", cls |-> "finite", t |-> t]
PyNaN == [k |-> "float", cls |-> "nan", t |-> 0]
PyInf == [k |-> "float", cls |-> "inf", t |-> 0]
PyBytes(s) == [k |-> "bytes", s |-> s]
PyStr(s) == [k |-> "str", s |-> s]
PyDecimal(t) == [k |-> "decimal", t |-> t]
PyComplex(re) == [k |-> "complex", re |-> re]
\* a datetime.datetime / datetime.date instance; nat: instance of NaTType
PyDateTime(ns) == [k |-> "datetime", nat |-> FALSE, v |-> ns]
PyNaT == [k |-> "datetime", nat |-> TRUE, v |-> 0]
PyTime(s) == [k |-> "time", s |-> s]
\* numpy scalars
NpDatetime64(v) == [k |-> "dt64", v |-> v]
NpInt(n) == [k |-> "npint", n |-> n]
NpBool(b) == [k |-> "npbool", b |-> b]
NpFloat(cls, t) == [k |-> "npfloat", cls |-> cls, t |-> t]
\* datetime.timedelta; hasValue: the object carries the cached integer
\* attribute "value" (nanoseconds), else only total_seconds()
PyDelta(hasValue, v) == [k |-> "timedelta", hasValue |-> hasValue, v |-> v]
\* an instance of a class the dispatcher has no branch for and that has no
\* toDict method: attrs is what PyObject_Dir lists, in its order, each name
\* with what PyObject_GetAttr yields for it (PyNULL when the fetch raises)
Attr(name, value) == [name |-> name, value |-> value]
PyObject(tag, attrs) == [k |-> "object", tag |-> tag, attrs |-> attrs]

\* numpy arrays: dims and strides per axis (in elements), buf the elements
\* of the underlying buffer by offset (buf[off + 1] is the element at data
\* pointer off), data the offset of the array's first element (a view with
\* a negative stride starts past the beginning of its buffer)
NdView(type, dims, strides, data, buf) ==
    [k |-> "ndarray", type |-> type, dims |-> dims, strides |-> strides,
     data |-> data, buf |-> buf]
NdArray(type, dims, strides, buf) == NdView(type, dims, strides, 0, buf)
Arr1(type, elems) == NdArray(type, <<Len(elems)>>, <<1>>, elems)
Arr2(type, rows, nr, nc) == NdArray(type, <<nr, nc>>, <<nc, 1>>, Flatten(rows))
\* get_values() of an object whose values cannot be materialised
NoValues == [k |-> "novalues"]

PyIndex(name, values) == [k |-> "index", name |-> name, values |-> values]
PySeries(name, index, values) ==
    [k |-> "series", name |-> name, index |-> index, values |-> values]
PyDataFrame(columns, index, values) ==
    [k |-> "dataframe", columns |-> columns, index |-> index, values |-> values]
\* a callable; does: what calling it does (see PyObject_CallFunctionObjArgs)
PyCallable(does) == [k |-> "callable", does |-> does]
PyCallable_Check(obj) == obj.k = "callable"

PyList(items) == [k |-> "list", items |-> items]
\* a dict: its (key, value) pairs in the order PyDict_Next enumerates them
DictItem(key, value) == [key |-> key, value |-> value]
PyDict(items) == [k |-> "dict", items |-> items]
\* a set: its elements in the order its iterator yields them
PySet(items) == [k |-> "set", items |-> items]
PyObject_GetIter(obj) == [k |-> "iterator", items |-> obj.items, pos |-> 0]

\* str(obj) for the kinds of key the model uses
PyObject_Str(obj) ==
    CASE obj.k = "int" -> Buffer_AppendLong(obj.n)
      [] obj.k = "bool" -> IF obj.b THEN <<"T", "r", "u", "e">> ELSE <<"F", "a", "l", "s", "e">>
      [] obj.k = "none" -> <<"N", "o", "n", "e">>
      [] OTHER -> obj.s
\* the UTF-8 bytes object of a text; every character of the model is ASCII
\* and is its own single byte
PyUnicode_AsUTF8String(s) == [k |-> "bytes", s |-> s]

\* calling a Python callable with one argument: the object returned (PyNULL
\* for none) and the error it raised
CallResult(tmpObj, err) == [tmpObj |-> tmpObj, err |-> err]
PyObject_CallFunctionObjArgs(callable, obj) ==
    CASE callable.does = "text" -> CallResult(PyStr(<<"h">>), "")
      [] callable.does = "list" -> CallResult(PyList(<<PyInt(5)>>), "")
      [] callable.does = "raise" -> CallResult(PyNULL, "TypeError: raised by the handler")
      [] callable.does = "null" -> CallResult(PyNULL, "")
      [] callable.does = "picky" ->
            IF obj.k = "object" /\ obj.tag = "A"
            THEN CallResult(PyNULL, "TypeError: raised by the handler")
            ELSE CallResult(PyStr(<<"h">>), "")

PyArray_NDIM(a) == Len(a.dims)
PyArray_DIM(a, i) == a.dims[i + 1]
PyArray_STRIDE(a, i) == a.strides[i + 1]
PyArray_DATA(a) == a.data
\* the descriptor's getitem: the Python object for the element at offset
\* off; a pointer outside the buffer, which the strider never forms, reads
\* whatever lies there
PyArray_GETITEM(a, off) == IF off + 1 \in DOMAIN a.buf THEN a.buf[off + 1] ELSE PyNone

(***************************************************************************)
(* The tabular library's object model, as far as the encoder consumes it   *)
(***************************************************************************)
\* get_values: the materialised numpy array of an Index / Series /
\* DataFrame, or NULL (with a ValueError pending) when there is none
get_values(obj) == IF obj.values.k = "ndarray" THEN obj.values ELSE PyNULL

\* the k-th (1-based) label object of an Index
IndexLabel(idx, i) ==
    PyArray_GETITEM(idx.values,
                    PyArray_DATA(idx.values) + (i - 1) * PyArray_STRIDE(idx.values, 0))

\* element (i, j) (0-based) of a 2-d array
Cell(a, i, j) ==
    PyArray_GETITEM(a, PyArray_DATA(a) + i * PyArray_STRIDE(a, 0) + j * PyArray_STRIDE(a, 1))

\* DataFrame.items(): (column label, column Series) pairs in column order
DataFrame_items(df) ==
    [j \in 1..PyArray_DIM(df.values, 1) |->
        <<IndexLabel(df.columns, j),
          PySeries(IndexLabel(df.columns, j), df.index,
                   Arr1(df.values.type,
                        [i \in 1..PyArray_DIM(df.values, 0) |-> Cell(df.values, i - 1, j - 1)]))>>]

\* DataFrame.iterrows(): (row label, row Series) pairs in row order
DataFrame_iterrows(df) ==
    [i \in 1..PyArray_DIM(df.values, 0) |->
        <<IndexLabel(df.index, i),
          PySeries(IndexLabel(df.index, i), df.columns,
                   Arr1(df.values.type,
                        [j \in 1..PyArray_DIM(df.values, 1) |-> Cell(df.values, i - 1, j - 1)]))>>]

(***************************************************************************)
(* numpy type numbers and their classes                                    *)
(***************************************************************************)
TypeNum(type) ==
    CASE type = "bool" -> 0
      [] type = "int" -> 7
      [] type = "float" -> 12
      [] type = "complex" -> 15
      [] type = "object" -> 17
      [] type = "datetime" -> 21
PyArray_TYPE(a) == TypeNum(a.type)
PyTypeNum_ISBOOL(t) == t = 0
PyTypeNum_ISINTEGER(t) == t >= 1 /\ t <= 10
PyTypeNum_ISFLOAT(t) == (t >= 11 /\ t <= 13) \/ t = 23
PyTypeNum_ISNUMBER(t) == t <= 16 \/ t = 23
PyTypeNum_ISDATETIME(t) == t >= 21 /\ t <= 22

(***************************************************************************)
(* Date/time rendering (np_datetime): epoch values are nanoseconds         *)
(***************************************************************************)
\* The not-a-time sentinel.  The source uses the least 64-bit integer; the
\* model keeps the same role with the least value of a 31-bit range so that
\* every rescaling by a date unit stays inside the integers TLC evaluates.
\* No arithmetic in the modelled paths overflows for either value.
NPY_MIN_INT64 == -1073741824
get_nat == NPY_MIN_INT64

UnitDivisor(unit) ==
    CASE unit = "ns" -> 1
      [] unit = "us" -> 1000
      [] unit = "ms" -> 1000000
      [] unit = "s" -> 1000000000

\* npy_datetimestruct_to_datetime(base, dts) of the struct made from ns
npy_datetimestruct_to_datetime(unit, ns) == CDiv(ns, UnitDivisor(unit))

RECURSIVE PadNat(_, _)
PadNat(n, width) ==
    IF width = 0 THEN <<>> ELSE PadNat(n \div 10, width - 1) \o <<DigitChars[(n % 10) + 1]>>

\* make_iso_8601_datetime for an instant within the first minute of the epoch
make_iso_8601_datetime(unit, ns) ==
    <<"1", "9", "7", "0", "-", "0", "1", "-", "0", "1", "T", "0", "0", ":", "0", "0", ":">>
    \o PadNat(ns \div 1000000000, 2)
    \o ( CASE unit = "s" -> <<>>
           [] unit = "ms" -> <<".">> \o PadNat((ns % 1000000000) \div 1000000, 3)
           [] unit = "us" -> <<".">> \o PadNat((ns % 1000000000) \div 1000, 6)
           [] unit = "ns" -> <<".">> \o PadNat(ns % 1000000000, 9) )

\* An invalid date: an instant whose calendar fields the ISO renderer
\* rejects (make_iso_8601_datetime returns non-zero for it).
InvalidDate == get_nat + 1
make_iso_8601_datetime_fails(ns) == ns = InvalidDate

(***************************************************************************)
(* Encoder bundle and type context                                         *)
(***************************************************************************)
NULLSTR == <<>>                       \* a NULL char *
UNINITSTR == <<"?">>                  \* a fresh PyObject_Malloc'ed buffer
FREEDSTR == <<"freed">>               \* a pointer to a buffer already released
NULLLABELS == [isNull |-> TRUE, arr |-> <<>>]
NULLFRAME == [isNull |-> TRUE, iterable |-> <<>>, pos |-> 0]
NULLVALUE == [arr |-> PyNULL, off |-> 0]

createTypeContext ==
    [iterBegin |-> "UNINIT", iterEnd |-> "UNINIT", iterNext |-> "UNINIT",
     iterGetName |-> "UNINIT", iterGetValue |-> "UNINIT", PyTypeToJSON |-> "UNINIT",
     newObj |-> PyNULL, dictObj |-> PyNULL, index |-> 0, size |-> 0,
     itemValue |-> PyNULL, itemName |-> PyNULL, attrList |-> PyNULL,
     doubleValue |-> 0, longValue |-> 0, cStr |-> NULLSTR, npyarr |-> 0,
     frame |-> NULLFRAME, transpose |-> 0,
     rowLabels |-> NULLLABELS, columnLabels |-> NULLLABELS,
     rowLabelsLen |-> 0, columnLabelsLen |-> 0,
     \* reference ledger of the activation: whether itemValue / itemName hold
     \* a reference the driver owns, the owned references whose pointer was
     \* overwritten, and whether a reference not owned was released
     valueOwned |-> FALSE, nameOwned |-> FALSE, lost |-> 0, twice |-> FALSE,
     \* not set by createTypeContext
     iterator |-> [k |-> "UNINIT"]]

\* Py_XDECREF(itemValue) / Py_XDECREF(itemName): the pointer is left as it is
Py_XDECREF_itemValue(tc) ==
    IF tc.itemValue.k = "NULL" THEN tc
    ELSE IF tc.valueOwned THEN [tc EXCEPT !.valueOwned = FALSE]
    ELSE [tc EXCEPT !.twice = TRUE]
Py_XDECREF_itemName(tc) ==
    IF tc.itemName.k = "NULL" THEN tc
    ELSE IF tc.nameOwned THEN [tc EXCEPT !.nameOwned = FALSE]
    ELSE [tc EXCEPT !.twice = TRUE]
\* itemValue / itemName is given a new reference v, or NULL
New_itemValue(tc, v) ==
    [tc EXCEPT !.itemValue = v, !.valueOwned = v.k # "NULL",
               !.lost = IF tc.valueOwned THEN @ + 1 ELSE @]
New_itemName(tc, v) ==
    [tc EXCEPT !.itemName = v, !.nameOwned = v.k # "NULL",
               !.lost = IF tc.nameOwned THEN @ + 1 ELSE @]
\* itemValue is given a borrowed reference v
Borrowed_itemValue(tc, v) ==
    [tc EXCEPT !.itemValue = v, !.valueOwned = FALSE,
               !.lost = IF tc.valueOwned THEN @ + 1 ELSE @]

Formats == {"SPLIT", "RECORDS", "INDEX", "COLUMNS", "VALUES"}
Units == {"s", "ms", "us", "ns"}

(***************************************************************************)
(* Classification of a staged numeric primitive (dtype + raw pointer)      *)
(***************************************************************************)
TagOnly(type, pc) == [type |-> type, pc |-> pc]

\* (mutation used by C38: a staged datetime is a long under either date mode)
NpyDatetimeTag_long(datetimeIso) == "JT_LONG"
\* the tag of a staged datetime element that is not the sentinel
NpyDatetimeTag(datetimeIso) == IF datetimeIso THEN "JT_UTF8" ELSE "JT_LONG"

ClassifyElem(pc, npyType, elem, datetimeIso) ==
    IF PyTypeNum_ISFLOAT(npyType) THEN
        IF elem.cls # "finite" THEN TagOnly("JT_NULL", pc)
        ELSE TagOnly("JT_DOUBLE",
                     [pc EXCEPT !.doubleValue = elem.t, !.PyTypeToJSON = "CDouble"])
    ELSE IF PyTypeNum_ISDATETIME(npyType) THEN
        IF elem.v = get_nat THEN TagOnly("JT_NULL", pc)
        ELSE TagOnly(NpyDatetimeTag(datetimeIso),
                     [pc EXCEPT !.longValue = elem.v, !.PyTypeToJSON = "NpyDatetime64ToJSON"])
    ELSE IF PyTypeNum_ISINTEGER(npyType) THEN
        TagOnly("JT_LONG", [pc EXCEPT !.longValue = elem.n, !.PyTypeToJSON = "CLong"])
    ELSE IF PyTypeNum_ISBOOL(npyType) THEN
        TagOnly(IF elem.b THEN "JT_TRUE" ELSE "JT_FALSE", pc)
    ELSE TagOnly("JT_INVALID", pc)

NpyTypeToJSONType(pc, npyType, value, datetimeIso) ==
    ClassifyElem(pc, npyType, PyArray_GETITEM(value.arr, value.off), datetimeIso)

(***************************************************************************)
(* Primitive coercers.  Each returns the payload the writer asked for:     *)
(* kind "long" (n), "double" (cls, t), "str" (s) or "fail" (NULL string,   *)
(* error recorded), and the type context as the coercer leaves it.         *)
(***************************************************************************)
Payload(kind, n, cls, t, s, pc, err, errorMsg) ==
    [kind |-> kind, n |-> n, cls |-> cls, t |-> t, s |-> s, pc |-> pc,
     err |-> err, errorMsg |-> errorMsg]
LongPayload(n, pc) == Payload("long", n, "finite", 0, <<>>, pc, "", FALSE)
DoublePayload(cls, t, pc) == Payload("double", 0, cls, t, <<>>, pc, "", FALSE)
StrPayload(s, pc) == Payload("str", 0, "finite", 0, s, pc, "", FALSE)

IsoPayload(text, pc) == StrPayload(text, [pc EXCEPT !.cStr = text \o <<NUL>>])

\* the renderer refused: the buffer is released, the pointer kept
IsoFailure(pc) ==
    Payload("fail", 0, "finite", 0, <<>>, [pc EXCEPT !.cStr = FREEDSTR],
            "ValueError: Could not convert datetime value to string", TRUE)

PandasDateTimeStructToJSON(ns, pc, datetimeIso, datetimeUnit) ==
    IF datetimeIso
    THEN IF make_iso_8601_datetime_fails(ns) THEN IsoFailure(pc)
         ELSE IsoPayload(make_iso_8601_datetime(datetimeUnit, ns), pc)
    ELSE LongPayload(npy_datetimestruct_to_datetime(datetimeUnit, ns), pc)

PyTypeToJSON(fn, obj, pc, datetimeIso, datetimeUnit) ==
    CASE fn = "CDouble" -> DoublePayload("finite", pc.doubleValue, pc)
      [] fn = "CLong" -> LongPayload(pc.longValue, pc)
      [] fn = "PyLongToINT64" -> LongPayload(pc.longValue, pc)
      [] fn = "NpyFloatToDOUBLE" -> DoublePayload(obj.cls, obj.t, pc)
      [] fn = "PyFloatToDOUBLE" ->
            DoublePayload(IF obj.k = "float" THEN obj.cls ELSE "finite", obj.t, pc)
      [] fn = "PyStringToUTF8" -> StrPayload(obj.s, pc)
      [] fn = "PyUnicodeToUTF8" -> StrPayload(obj.s, pc)
      [] fn = "PyDateTimeToJSON" ->
            PandasDateTimeStructToJSON(obj.v, pc, datetimeIso, datetimeUnit)
      [] fn = "NpyDateTimeScalarToJSON" ->
            PandasDateTimeStructToJSON(obj.v, pc, datetimeIso, datetimeUnit)
      [] fn = "NpyDatetime64ToJSON" ->
            PandasDateTimeStructToJSON(pc.longValue, pc, datetimeIso, datetimeUnit)
      [] fn = "PyTimeToJSON" -> StrPayload(obj.s, [pc EXCEPT !.newObj = PyBytes(obj.s)])

\* the writer's text for a coerced scalar; a nan or infinite double is
\* refused by the writer, which records an error and writes nothing
WriteScalar(p) ==
    CASE p.kind = "long" -> Buffer_AppendLong(p.n)
      [] p.kind = "double" -> IF p.cls = "finite" THEN Buffer_AppendDouble(p.t) ELSE <<>>
      [] p.kind = "str" -> Buffer_Quote(p.s)
      [] OTHER -> <<>>
WriteFails(p) == p.kind = "fail" \/ (p.kind = "double" /\ p.cls # "finite")

WriteLiteral(type) ==
    CASE type = "JT_NULL" -> <<"n", "u", "l", "l">>
      [] type = "JT_TRUE" -> <<"t", "r", "u", "e">>
      [] type = "JT_FALSE" -> <<"f", "a", "l", "s", "e">>

(***************************************************************************)
(* Object_beginTypeContext: the type dispatcher.                           *)
(* A dispatch result is the published shape tag, where tc->prv points      *)
(* ("NULL", "basic": the encoder's shared staging context, "own": a fresh  *)
(* context), the context's contents, the encoder as left by the call and   *)
(* the error raised ("" for none).                                         *)
(***************************************************************************)
DRes(type, prv, pc, enc, err) ==
    [type |-> type, prv |-> prv, pc |-> pc, enc |-> enc, err |-> err]

\* the INVALID label: the block of the context is freed and tc->prv cleared;
\* pc is the block's contents at that point, which nothing releases
InvalidOf(pc, enc, err) == DRes("JT_INVALID", "NULL", pc, enc, err)
Invalid(enc, err) == InvalidOf(createTypeContext, enc, err)

\* the allocations a type context holds: the materialised values, the
\* pre-encoded labels, the text buffer
LiveAllocations(pc) ==
    (IF pc.newObj.k # "NULL" THEN {"newObj"} ELSE {})
    \cup (IF ~pc.rowLabels.isNull THEN {"rowLabels"} ELSE {})
    \cup (IF ~pc.columnLabels.isNull THEN {"columnLabels"} ELSE {})
    \cup (IF pc.cStr # NULLSTR THEN {"cStr"} ELSE {})

PyBool_Check(obj) == obj.k = "bool"
PyLong_Check(obj) == obj.k = "int" \/ obj.k = "bool"
PyFloat_Check(obj) == obj.k = "float"
PyBytes_Check(obj) == obj.k = "bytes"
PyUnicode_Check(obj) == obj.k = "str"
PyDecimal_Check(obj) == obj.k = "decimal"
PyDateTime_Check(obj) == obj.k = "datetime"
PyTime_Check(obj) == obj.k = "time"
PyDelta_Check(obj) == obj.k = "timedelta"
PyArray_Check(obj) == obj.k = "ndarray"
\* (mutation used by C20: an array without dimensions is no scalar)
PyArray_CheckScalar_noArray(obj) == obj.k \in {"dt64", "npint", "npbool", "npfloat"}
PyArray_CheckScalar(obj) == obj.k \in {"dt64", "npint", "npbool", "npfloat"}
                            \/ (obj.k = "ndarray" /\ PyArray_NDIM(obj) = 0)

\* reading through a NULL pointer: undefined behaviour
NULL_DEREFERENCE == "undefined behaviour: NULL dereference"
\* PyErr_Clear() as the error a dispatch leaves
PyErr_Clear == "PyErr_Clear"

\* Object_invokeDefaultHandler up to its nested encode(): the handler's
\* result and the error left, given the error pending when it is called.
\* encodes: the result goes through encode().
Object_invokeDefaultHandler(obj, defaultHandler, pending) ==
    LET call == PyObject_CallFunctionObjArgs(defaultHandler, obj)
    IN IF call.err # "" \/ pending # ""
       THEN [tmpObj |-> call.tmpObj, encodes |-> FALSE,
             err |-> IF call.err # "" THEN call.err ELSE pending]
       ELSE IF call.tmpObj.k = "NULL"
       THEN [tmpObj |-> PyNULL, encodes |-> FALSE,
             err |-> "TypeError: Failed to execute default handler"]
       ELSE [tmpObj |-> call.tmpObj, encodes |-> TRUE, err |-> ""]

\* the error a staged primitive of an unclassified dtype ends in when no
\* handler can be called: without a handler the RuntimeError, with a
\* handler but an empty passthrough slot the read of
\* enc->npyCtxtPassthru->getitem
StagedInvalidError(enc) ==
    IF enc.defaultHandler.k = "NULL" THEN "RuntimeError: Unhandled numpy dtype"
    ELSE IF enc.npyCtxtPassthru = 0 THEN NULL_DEREFERENCE
    ELSE ""

\* a pending numeric-primitive staging: classify by dtype and raw pointer
StagedResult(r, enc) ==
    DRes(r.type, "basic", r.pc,
         [enc EXCEPT !.basicTypeContext = r.pc, !.npyCtxtPassthru = 0, !.npyType = -1],
         IF r.type = "JT_INVALID" THEN StagedInvalidError(enc) ELSE "")

DispatchStaged(obj, enc) ==
    StagedResult(NpyTypeToJSONType(enc.basicTypeContext, enc.npyType, enc.npyValue,
                                   enc.datetimeIso), enc)

\* (mutation used by C37: the division rounds toward minus infinity)
DeltaValue_floor(obj, unit) ==
    CASE unit = "ns" -> obj.v
      [] unit = "us" -> obj.v \div 1000
      [] unit = "ms" -> obj.v \div 1000000
      [] unit = "s" -> obj.v \div 1000000000
\* the nanosecond value of a duration rescaled to the configured unit
DeltaValue(obj, unit) ==
    CASE unit = "ns" -> obj.v
      [] unit = "us" -> CDiv(obj.v, 1000)
      [] unit = "ms" -> CDiv(obj.v, 1000000)
      [] unit = "s" -> CDiv(obj.v, 1000000000)

\* the duration branch once the value has been rescaled; an overflow error
\* that is pending by then sends it to INVALID
DispatchDelta(value, pc, enc, pyErr) ==
    IF pyErr = "OverflowError" THEN Invalid(enc, "OverflowError")
    ELSE IF value = get_nat THEN DRes("JT_NULL", "own", pc, enc, "")
    ELSE DRes("JT_LONG", "own",
              [pc EXCEPT !.longValue = value, !.PyTypeToJSON = "PyLongToINT64"], enc, "")

\* PyLong_AsLongLong raises OverflowError for an integer outside the signed
\* 64-bit range; the branch tests whether an OverflowError is pending after
\* the conversion, which is also so when one was pending before it
PyLong_overflows(obj, pyErr) == obj.big \/ pyErr = "OverflowError"

\* the scalar branches, in dispatch order; pc is the fresh type context,
\* pyErr the error pending when the dispatcher is entered
DispatchScalar(obj, pc, enc, pyErr) ==
    IF PyLong_Check(obj) THEN
        IF PyLong_overflows(obj, pyErr) THEN Invalid(enc, "OverflowError")
        ELSE DRes("JT_LONG", "own",
                  [pc EXCEPT !.PyTypeToJSON = "PyLongToINT64", !.longValue = obj.n], enc, "")
    ELSE IF PyFloat_Check(obj) THEN
        IF obj.cls # "finite" THEN DRes("JT_NULL", "own", pc, enc, "")
        ELSE DRes("JT_DOUBLE", "own", [pc EXCEPT !.PyTypeToJSON = "PyFloatToDOUBLE"], enc, "")
    ELSE IF PyBytes_Check(obj) THEN
        DRes("JT_UTF8", "own", [pc EXCEPT !.PyTypeToJSON = "PyStringToUTF8"], enc, "")
    ELSE IF PyUnicode_Check(obj) THEN
        DRes("JT_UTF8", "own", [pc EXCEPT !.PyTypeToJSON = "PyUnicodeToUTF8"], enc, "")
    ELSE IF PyDecimal_Check(obj) THEN
        DRes("JT_DOUBLE", "own", [pc EXCEPT !.PyTypeToJSON = "PyFloatToDOUBLE"], enc, "")
    ELSE IF PyDateTime_Check(obj) THEN
        IF obj.nat THEN DRes("JT_NULL", "own", pc, enc, "")
        ELSE DRes(IF enc.datetimeIso THEN "JT_UTF8" ELSE "JT_LONG", "own",
                  [pc EXCEPT !.PyTypeToJSON = "PyDateTimeToJSON"], enc, "")
    ELSE IF PyTime_Check(obj) THEN
        DRes("JT_UTF8", "own", [pc EXCEPT !.PyTypeToJSON = "PyTimeToJSON"], enc, "")
    ELSE IF obj.k = "dt64" THEN
        IF obj.v = get_nat THEN DRes("JT_NULL", "own", pc, enc, "")
        ELSE DRes(IF enc.datetimeIso THEN "JT_UTF8" ELSE "JT_LONG", "own",
                  [pc EXCEPT !.PyTypeToJSON = "NpyDateTimeScalarToJSON"], enc, "")
    ELSE IF PyDelta_Check(obj) THEN
        DispatchDelta(DeltaValue(obj, enc.datetimeUnit), pc, enc, pyErr)
    ELSE IF obj.k = "npint" THEN
        DRes("JT_LONG", "own",
             [pc EXCEPT !.PyTypeToJSON = "PyLongToINT64", !.longValue = obj.n], enc, "")
    ELSE IF obj.k = "npbool" THEN
        DRes(IF obj.b THEN "JT_TRUE" ELSE "JT_FALSE", "own",
             [pc EXCEPT !.longValue = IF obj.b THEN 1 ELSE 0], enc, "")
    ELSE IF obj.k = "npfloat" THEN
        DRes("JT_DOUBLE", "own", [pc EXCEPT !.PyTypeToJSON = "NpyFloatToDOUBLE"], enc, "")
    ELSE \* PyArray_Check(obj) && PyArray_CheckScalar(obj): a 0-d array
        Invalid(enc, "TypeError: 0d array is not JSON serializable at the moment")

IsScalarKind(obj) ==
    obj.k \in {"bool", "int", "float", "bytes", "str", "decimal", "datetime", "time", "dt64",
               "timedelta", "npint", "npbool", "npfloat"}
    \/ (PyArray_Check(obj) /\ PyArray_CheckScalar(obj))

\* (mutation used by C9: booleans are not singled out before the integers)
DispatchLeaf_noBool(obj, enc, pyErr) ==
    IF obj.k = "NULL" THEN DRes("JT_INVALID", "NULL", createTypeContext, enc, "")
    ELSE IF enc.npyType >= 0 THEN DispatchStaged(obj, enc)
    ELSE IF obj.k = "none" THEN DRes("JT_NULL", "NULL", createTypeContext, enc, "")
    ELSE DispatchScalar(obj, createTypeContext, enc, pyErr)

\* the dispatcher for a value that is no container
DispatchLeaf(obj, enc, pyErr) ==
    IF obj.k = "NULL" THEN DRes("JT_INVALID", "NULL", createTypeContext, enc, "")
    ELSE IF enc.npyType >= 0 THEN DispatchStaged(obj, enc)
    ELSE IF PyBool_Check(obj) THEN
        DRes(IF obj.b THEN "JT_TRUE" ELSE "JT_FALSE", "NULL", createTypeContext, enc, "")
    ELSE IF obj.k = "none" THEN DRes("JT_NULL", "NULL", createTypeContext, enc, "")
    ELSE DispatchScalar(obj, createTypeContext, enc, pyErr)

(***************************************************************************)
(* Object_endTypeContext: what it releases on a type context               *)
(***************************************************************************)
EndTypeContextPc(pc) ==
    [pc EXCEPT !.newObj = PyNULL, !.rowLabels = NULLLABELS,
               !.columnLabels = NULLLABELS, !.cStr = NULLSTR]

(***************************************************************************)
(* The label pre-encoder, NpyArr_encodeLabels                              *)
(***************************************************************************)
IsPrimitiveTag(type) == type \in {"JT_LONG", "JT_DOUBLE", "JT_UTF8"}
IsLiteralTag(type) == type \in {"JT_NULL", "JT_TRUE", "JT_FALSE"}

\* the writer's JSON_EncodeObject on one label into the scratch buffer: the
\* text written, the encoder as left, the error raised
EncodedLeaf(d, p) ==
    [text |-> IF IsLiteralTag(d.type) THEN WriteLiteral(d.type)
              ELSE IF IsPrimitiveTag(d.type) THEN WriteScalar(p) ELSE <<>>,
     enc |-> [d.enc EXCEPT !.errorMsg = IsPrimitiveTag(d.type) /\ WriteFails(p),
                           !.basicTypeContext =
                               IF d.prv = "basic" /\ d.type # "JT_INVALID"
                               THEN EndTypeContextPc(p.pc) ELSE @],
     err |-> d.err]

EncodeDispatched(item, d, datetimeIso, datetimeUnit) ==
    EncodedLeaf(d, IF IsPrimitiveTag(d.type)
                   THEN PyTypeToJSON(d.pc.PyTypeToJSON, item, d.pc, datetimeIso, datetimeUnit)
                   ELSE LongPayload(0, d.pc))

JSON_EncodeLeaf(item, enc, pyErr) ==
    EncodeDispatched(item, DispatchLeaf(item, [enc EXCEPT !.errorMsg = FALSE], pyErr),
                     enc.datetimeIso, enc.datetimeUnit)

\* one pre-encoded label from the text cLabel..offset the writer produced:
\* quote, body, quote, colon, terminator
LabelLayout(cLabel, need_quotes, len) ==
    IF need_quotes = 1
    THEN <<"\"">> \o Slice(cLabel, 0, len - 4) \o <<"\"", ":", NUL>>
    ELSE Slice(cLabel, 0, len - 2) \o <<":", NUL>>

LabelBytes(text) ==
    LabelLayout(text \o <<NUL>>,
                IF (text \o <<NUL>>)[1] # "\"" THEN 1 ELSE 0,
                Len(text) + 2 + 2 * (IF (text \o <<NUL>>)[1] # "\"" THEN 1 ELSE 0))

\* one label: staged through the encoder when the dtype is numeric or
\* datetime, else fetched as an object
EncodeLabel(labels, enc, type_num, dataptr, pyErr) ==
    IF PyTypeNum_ISDATETIME(type_num) \/ PyTypeNum_ISNUMBER(type_num)
    THEN JSON_EncodeLeaf(labels, [enc EXCEPT !.npyType = type_num,
                                             !.npyValue = [arr |-> labels, off |-> dataptr]],
                         pyErr)
    ELSE JSON_EncodeLeaf(PyArray_GETITEM(labels, dataptr), enc, pyErr)

RECURSIVE EncodeLabelsFrom(_, _, _, _, _, _)
EncodeLabelsNext(labels, num, i, ret, pyErr, r) ==
    IF r.err # "" \/ pyErr # "" \/ r.enc.errorMsg
    THEN [ret |-> NULLLABELS, enc |-> r.enc, err |-> IF r.err # "" THEN r.err ELSE pyErr]
    ELSE EncodeLabelsFrom(labels, r.enc, num, i + 1, Append(ret, LabelBytes(r.text)), pyErr)

EncodeLabelsFrom(labels, enc, num, i, ret, pyErr) ==
    IF i = num THEN [ret |-> [isNull |-> FALSE, arr |-> ret], enc |-> enc, err |-> pyErr]
    ELSE EncodeLabelsNext(labels, num, i, ret, pyErr,
                          EncodeLabel(labels, enc, PyArray_TYPE(labels),
                                      PyArray_DATA(labels) + i * PyArray_STRIDE(labels, 0),
                                      pyErr))

RECURSIVE Product(_)
Product(ns) == IF ns = <<>> THEN 1 ELSE Head(ns) * Product(Tail(ns))
PyArray_SIZE(a) == Product(a.dims)

\* (mutation used by C19: as many labels as expected are too few as well)
NpyArr_labelsTooFew_orEqual(labels, num) == PyArray_SIZE(labels) <= num
\* the size test of the label pre-encoder
NpyArr_labelsTooFew(labels, num) == PyArray_SIZE(labels) < num

NpyArr_encodeLabels(labels, enc, num, pyErr) ==
    IF labels.k = "NULL" THEN [ret |-> NULLLABELS, enc |-> enc, err |-> pyErr]
    ELSE IF NpyArr_labelsTooFew(labels, num)
    THEN [ret |-> NULLLABELS, enc |-> enc,
          err |-> "ValueError: Label array sizes do not match corresponding data shape"]
    ELSE EncodeLabelsFrom(labels, enc, num, 0, <<>>, pyErr)

(***************************************************************************)
(* The container branches of the dispatcher (label ISITERABLE)             *)
(***************************************************************************)
\* (mutation used by C27: the name callback is left as it was)
SetIter_noGetName(pc, begin, next, end, getValue, getName) ==
    [pc EXCEPT !.iterBegin = begin, !.iterNext = next, !.iterEnd = end,
               !.iterGetValue = getValue]
SetIter(pc, begin, next, end, getValue, getName) ==
    [pc EXCEPT !.iterBegin = begin, !.iterNext = next, !.iterEnd = end,
               !.iterGetValue = getValue, !.iterGetName = getName]
NpyArrIter(pc) ==
    SetIter(pc, "NpyArr_iterBegin", "NpyArr_iterNext", "NpyArr_iterEnd",
            "NpyArr_iterGetValue", "NpyArr_iterGetName")

\* (mutation used by C7: only Index is an object)
Series_jsonType_index(fmt) == IF fmt = "INDEX" THEN "JT_OBJECT" ELSE "JT_ARRAY"
\* shape of a labeled vector dispatched under a non-Split orientation
Series_jsonType(fmt) == IF fmt = "INDEX" \/ fmt = "COLUMNS" THEN "JT_OBJECT" ELSE "JT_ARRAY"
\* (mutation used by C5: only Records is an array)
DataFrame_jsonType_records(fmt) == IF fmt = "RECORDS" THEN "JT_ARRAY" ELSE "JT_OBJECT"
\* shape of a table per orientation
DataFrame_jsonType(fmt) == IF fmt = "RECORDS" \/ fmt = "VALUES" THEN "JT_ARRAY" ELSE "JT_OBJECT"
\* (mutation used by C4: the column labels are pre-encoded for every orientation)
DataFrame_labelAttr_columns(fmt) == "columns"
\* the axis whose labels a table pre-encodes
DataFrame_labelAttr(fmt) == IF fmt = "INDEX" THEN "index" ELSE "columns"

ValuesError == "ValueError: not JSON serializable yet"

DispatchIndex(obj, pc, enc) ==
    IF enc.outputFormat = "SPLIT" THEN
        DRes("JT_OBJECT", "own",
             SetIter(pc, "Index_iterBegin", "Index_iterNext", "Index_iterEnd",
                     "Index_iterGetValue", "Index_iterGetName"), enc, "")
    ELSE IF get_values(obj).k # "NULL"
         THEN DRes("JT_ARRAY", "own", NpyArrIter([pc EXCEPT !.newObj = get_values(obj)]),
                   enc, "")
         ELSE Invalid(enc, ValuesError)

\* the labelled container once its labels l have been pre-encoded
Labelled(pcIter, len, l) ==
    IF l.ret.isNull
    THEN InvalidOf([createTypeContext EXCEPT !.newObj = pcIter.newObj], l.enc, l.err)
    ELSE DRes("JT_OBJECT", "own",
              [pcIter EXCEPT !.columnLabelsLen = len, !.columnLabels = l.ret], l.enc, "")

SeriesValues(obj, newObj, pc, enc, pyErr) ==
    IF newObj.k = "NULL" THEN Invalid(enc, ValuesError)
    ELSE IF Series_jsonType(enc.outputFormat) = "JT_OBJECT" THEN
        IF get_values(obj.index).k = "NULL"
        THEN InvalidOf([pc EXCEPT !.newObj = newObj], enc, ValuesError)
        ELSE Labelled(NpyArrIter([pc EXCEPT !.newObj = newObj]), PyArray_DIM(newObj, 0),
                      NpyArr_encodeLabels(get_values(obj.index), enc,
                                          PyArray_DIM(newObj, 0), pyErr))
    ELSE DRes("JT_ARRAY", "own", NpyArrIter([pc EXCEPT !.newObj = newObj]), enc, "")

DispatchSeries(obj, pc, enc, pyErr) ==
    IF enc.outputFormat = "SPLIT" THEN
        DRes("JT_OBJECT", "own",
             SetIter(pc, "Series_iterBegin", "Series_iterNext", "Series_iterEnd",
                     "Series_iterGetValue", "Series_iterGetName"), enc, "")
    ELSE SeriesValues(obj, get_values(obj), pc, enc, pyErr)

DispatchArray(obj, pc, enc, columnLabelsOfPassthru) ==
    IF enc.npyCtxtPassthru # 0 THEN
        DRes(IF ~columnLabelsOfPassthru.isNull THEN "JT_OBJECT" ELSE "JT_ARRAY", "own",
             SetIter([pc EXCEPT !.npyarr = enc.npyCtxtPassthru],
                     "NpyArrPassThru_iterBegin", "NpyArr_iterNext",
                     "NpyArrPassThru_iterEnd", "NpyArr_iterGetValue", "NpyArr_iterGetName"),
             [enc EXCEPT !.npyCtxtPassthru = 0], "")
    ELSE DRes("JT_ARRAY", "own", NpyArrIter(pc), enc, "")

DataFrameIter(pc) ==
    SetIter(pc, "DataFrame_iterBegin", "DataFrame_iterNext", "DataFrame_iterEnd",
            "DataFrame_iterGetValue", "DataFrame_iterGetName")

DataFrameLabels(values, pc, enc, pyErr) ==
    IF values.k = "NULL" THEN Invalid(enc, ValuesError)
    ELSE Labelled(DataFrameIter(pc), PyArray_DIM(values, 0),
                  NpyArr_encodeLabels(values, enc, PyArray_DIM(values, 0), pyErr))

DispatchDataFrame(obj, pc, enc, pyErr) ==
    IF enc.outputFormat = "INDEX" \/ enc.outputFormat = "COLUMNS" THEN
        DataFrameLabels(get_values(IF DataFrame_labelAttr(enc.outputFormat) = "index"
                                   THEN obj.index ELSE obj.columns), pc, enc, pyErr)
    ELSE DRes(DataFrame_jsonType(enc.outputFormat), "own", DataFrameIter(pc), enc, "")

DispatchDict(obj, pc, enc) ==
    DRes("JT_OBJECT", "own",
         SetIter([pc EXCEPT !.dictObj = obj],
                 "Dict_iterBegin", "Dict_iterNext", "Dict_iterEnd",
                 "Dict_iterGetValue", "Dict_iterGetName"), enc, "")

DispatchSet(obj, pc, enc) ==
    DRes("JT_ARRAY", "own",
         SetIter(pc, "Iter_iterBegin", "Iter_iterNext", "Iter_iterEnd",
                 "Iter_iterGetValue", "Iter_iterGetName"), enc, "")

DispatchList(obj, pc, enc) ==
    DRes("JT_ARRAY", "own",
         SetIter(pc, "List_iterBegin", "List_iterNext", "List_iterEnd",
                 "List_iterGetValue", "List_iterGetName"), enc, "")

\* the last branch: a value no branch matched and without a toDict method.
\* Pending errors are cleared; with a default handler the dispatcher leaves
\* through INVALID once Object_invokeDefaultHandler is back, else the value
\* is an object over its attributes.
DispatchFallback(obj, pc, enc) ==
    IF enc.defaultHandler.k # "NULL" THEN Invalid(enc, PyErr_Clear)
    ELSE DRes("JT_OBJECT", "own",
              SetIter(pc, "Dir_iterBegin", "Dir_iterNext", "Dir_iterEnd",
                      "Dir_iterGetValue", "Dir_iterGetName"), enc, PyErr_Clear)

\* the dispatcher calls the default handler for this value
CallsDefaultHandler(obj, enc) ==
    /\ obj.k # "NULL"
    /\ enc.defaultHandler.k # "NULL"
    /\ IF enc.npyType >= 0
       THEN /\ NpyTypeToJSONType(enc.basicTypeContext, enc.npyType, enc.npyValue,
                                 enc.datetimeIso).type = "JT_INVALID"
            /\ enc.npyCtxtPassthru # 0
       ELSE obj.k = "object"

\* Object_beginTypeContext as a whole, in dispatch order
Dispatch(obj, enc, pyErr, columnLabelsOfPassthru) ==
    IF obj.k = "NULL" \/ enc.npyType >= 0 \/ PyBool_Check(obj) \/ obj.k = "none"
    THEN DispatchLeaf(obj, enc, pyErr)
    ELSE IF PyArray_Check(obj) /\ ~PyArray_CheckScalar(obj)
    THEN DispatchArray(obj, createTypeContext, enc, columnLabelsOfPassthru)
    ELSE IF IsScalarKind(obj) THEN DispatchScalar(obj, createTypeContext, enc, pyErr)
    ELSE IF obj.k = "index" THEN DispatchIndex(obj, createTypeContext, enc)
    ELSE IF obj.k = "series" THEN DispatchSeries(obj, createTypeContext, enc, pyErr)
    ELSE IF obj.k = "dataframe" THEN DispatchDataFrame(obj, createTypeContext, enc, pyErr)
    ELSE IF obj.k = "dict" THEN DispatchDict(obj, createTypeContext, enc)
    ELSE IF obj.k = "list" THEN DispatchList(obj, createTypeContext, enc)
    ELSE IF obj.k = "set" THEN DispatchSet(obj, createTypeContext, enc)
    ELSE DispatchFallback(obj, createTypeContext, enc)

(***************************************************************************)
(* State                                                                   *)
(***************************************************************************)
VARIABLES
    pc,        \* "start", "encode", "encoded", "done", "crashed"
    input,     \* the arguments of the top-level call
    enc,       \* the PyObjectEncoder
    pyErr,     \* the ambient error channel ("" when no error is pending)
    stack,     \* the writer's recursion: one frame per active encode()
    out,       \* the writer's output buffer
    npyarrs,   \* the NpyArrContext objects allocated so far
    result,    \* what objToJSON returned: "none", "text", "error"
    lastTc     \* the JSONTypeContext as the dispatcher last handed it to the
               \* writer: the value classified (for a staged primitive the
               \* element behind the raw pointer), its tag, whether it was
               \* staged, where tc->prv points, the staged long value, and the
               \* error that was pending when the dispatcher was entered
VARIABLES
    handlerCalls  \* history: the arguments the default handler was called
                  \* with, in call order

vars == <<pc, input, enc, pyErr, stack, out, npyarrs, result, lastTc, handlerCalls>>

\* one encode() activation: the value, its JSONTypeContext (type, prv and
\* the TypeContext prv points to when it is the activation's own), the
\* writer's position and its item count; fmt is history: the orientation in
\* force when the activation's table driver was begun; arg and mark are
\* history: the value the default handler was called with for this
\* activation and the length of the output at that call
NewFrame(obj) ==
    [obj |-> obj, type |-> "NONE", prv |-> "NULL", tctx |-> createTypeContext,
     pos |-> "begin", count |-> 0, fmt |-> "NONE", arg |-> PyNULL, mark |-> 0]

TOP == stack[Len(stack)]
GET_TC == IF TOP.prv = "basic" THEN enc.basicTypeContext ELSE TOP.tctx
SetTop(f) == [stack EXCEPT ![Len(stack)] = f]
Push(f, child) == SetTop(f) \o <<child>>
\* the writer returns from encode(): the caller counts the item and goes on
\* to the next one; the encode() called by Object_invokeDefaultHandler
\* returns into the dispatcher
Pop ==
    IF Len(stack) = 1 THEN <<>>
    ELSE LET parent == stack[Len(stack) - 1] IN
         SubSeq(stack, 1, Len(stack) - 2)
         \o <<IF parent.pos = "handler" THEN [parent EXCEPT !.pos = "handled"]
             ELSE [parent EXCEPT !.pos = "iterNext", !.count = @ + 1]>>
AfterPop == IF Len(stack) = 1 THEN "encoded" ELSE "encode"

At(pos) == pc = "encode" /\ stack # <<>> /\ TOP.pos = pos
Crash == /\ pc' = "crashed"
         /\ UNCHANGED <<input, enc, pyErr, stack, out, npyarrs, result, lastTc, handlerCalls>>
Raise(err) == IF err = PyErr_Clear THEN "" ELSE IF err # "" THEN err ELSE pyErr

(***************************************************************************)
(* objToJSON: the top-level entry                                          *)
(***************************************************************************)
\* Keyword options as PyArg_ParseTupleAndKeywords leaves them: a C string
\* or int option is a record telling whether it was given (an omitted
\* option leaves the variable at its initial value), an object option is
\* the Python object or NULL.
Omitted == [given |-> FALSE, s |-> ""]
Given(s) == [given |-> TRUE, s |-> s]
OmittedInt == [given |-> FALSE, n |-> 10]
GivenInt(n) == [given |-> TRUE, n |-> n]
PyObject_IsTrue(obj) ==
    CASE obj.k = "bool" -> obj.b
      [] obj.k = "int" -> obj.n # 0
      [] obj.k = "none" -> FALSE
      [] OTHER -> TRUE
Options(sOrient, sdateFormat, idoublePrecision, oisoDates, odefHandler, oensureAscii) ==
    [sOrient |-> sOrient, sdateFormat |-> sdateFormat,
     idoublePrecision |-> idoublePrecision, oisoDates |-> oisoDates,
     odefHandler |-> odefHandler, oensureAscii |-> oensureAscii,
     oencodeHTMLChars |-> PyNULL]
DefaultOptions == Options(Omitted, Omitted, OmittedInt, PyNULL, PyNULL, PyNULL)

JSON_DOUBLE_MAX_DECIMALS == 15

\* strcmp chain over the orient option
ParseOrient(sOrient) ==
    IF ~sOrient.given THEN "COLUMNS"
    ELSE CASE sOrient.s = "records" -> "RECORDS"
           [] sOrient.s = "index" -> "INDEX"
           [] sOrient.s = "split" -> "SPLIT"
           [] sOrient.s = "values" -> "VALUES"
           [] sOrient.s = "columns" -> "COLUMNS"
           [] OTHER -> "ERROR"
\* strcmp chain over the date_unit option
ParseDateUnit(sdateFormat) ==
    IF ~sdateFormat.given THEN "ms"
    ELSE CASE sdateFormat.s = "s" -> "s"
           [] sdateFormat.s = "ms" -> "ms"
           [] sdateFormat.s = "us" -> "us"
           [] sdateFormat.s = "ns" -> "ns"
           [] OTHER -> "ERROR"

\* (mutation used by C14: a negative precision is let through)
OptionError_noLowerBound(opt) ==
    IF opt.idoublePrecision.n > JSON_DOUBLE_MAX_DECIMALS
    THEN "ValueError: Invalid value for option 'double_precision'"
    ELSE IF ParseOrient(opt.sOrient) = "ERROR"
    THEN "ValueError: Invalid value for option 'orient'"
    ELSE IF ParseDateUnit(opt.sdateFormat) = "ERROR"
    THEN "ValueError: Invalid value for option 'date_unit'"
    ELSE IF opt.odefHandler.k # "NULL" /\ opt.odefHandler.k # "none"
            /\ ~PyCallable_Check(opt.odefHandler)
    THEN "TypeError: Default handler is not callable"
    ELSE ""
\* the option checks in the order of the code: the error the call is
\* rejected with, "" when every option is accepted
OptionError(opt) ==
    IF opt.idoublePrecision.n > JSON_DOUBLE_MAX_DECIMALS \/ opt.idoublePrecision.n < 0
    THEN "ValueError: Invalid value for option 'double_precision'"
    ELSE IF ParseOrient(opt.sOrient) = "ERROR"
    THEN "ValueError: Invalid value for option 'orient'"
    ELSE IF ParseDateUnit(opt.sdateFormat) = "ERROR"
    THEN "ValueError: Invalid value for option 'date_unit'"
    ELSE IF opt.odefHandler.k # "NULL" /\ opt.odefHandler.k # "none"
            /\ ~PyCallable_Check(opt.odefHandler)
    THEN "TypeError: Default handler is not callable"
    ELSE ""

\* the encoder bundle as it stands when the writer is invoked
InitialEncoder(opt) ==
    [npyCtxtPassthru |-> 0, npyType |-> -1, npyValue |-> NULLVALUE,
     basicTypeContext |-> createTypeContext,
     doublePrecision |-> opt.idoublePrecision.n,
     forceASCII |-> IF opt.oensureAscii.k # "NULL" /\ ~PyObject_IsTrue(opt.oensureAscii)
                    THEN 0 ELSE 1,
     encodeHTMLChars |-> IF opt.oencodeHTMLChars.k # "NULL"
                            /\ PyObject_IsTrue(opt.oencodeHTMLChars) THEN 1 ELSE 0,
     datetimeIso |-> opt.oisoDates.k # "NULL" /\ PyObject_IsTrue(opt.oisoDates),
     datetimeUnit |-> ParseDateUnit(opt.sdateFormat),
     outputFormat |-> ParseOrient(opt.sOrient),
     originalOutputFormat |-> ParseOrient(opt.sOrient),
     defaultHandler |-> IF opt.odefHandler.k # "NULL" /\ opt.odefHandler.k # "none"
                        THEN opt.odefHandler ELSE PyNULL,
     errorMsg |-> FALSE]

objToJSON_call ==
    /\ pc = "start"
    /\ IF OptionError(input.opt) # ""
       THEN /\ pyErr' = OptionError(input.opt)
            /\ result' = "error"
            /\ pc' = "done"
            /\ UNCHANGED <<enc, stack>>
       ELSE /\ enc' = InitialEncoder(input.opt)
            /\ stack' = <<NewFrame(input.obj)>>
            /\ pc' = "encode"
            /\ UNCHANGED <<pyErr, result>>
    /\ UNCHANGED <<input, out, npyarrs, lastTc, handlerCalls>>

\* (mutation used by C13: only the ambient error is looked at)
objToJSON_result_ambientOnly(err, errorMsg) == IF err # "" THEN "error" ELSE "text"
\* what the call returns once the writer is back: NULL with an error set, or
\* the text of the buffer
objToJSON_result(err, errorMsg) == IF err # "" \/ errorMsg THEN "error" ELSE "text"

objToJSON_return ==
    /\ pc = "encoded"
    /\ result' = objToJSON_result(pyErr, enc.errorMsg)
    /\ pyErr' = IF pyErr = "" /\ enc.errorMsg THEN "OverflowError: encoder error" ELSE pyErr
    /\ pc' = "done"
    /\ UNCHANGED <<input, enc, stack, out, npyarrs, lastTc, handlerCalls>>

(***************************************************************************)
(* The dispatcher and the scalar path of encode()                          *)
(***************************************************************************)
PassthruLabels ==
    IF enc.npyCtxtPassthru # 0 THEN npyarrs[enc.npyCtxtPassthru].columnLabels
    ELSE NULLLABELS

\* the writer's step once the dispatcher returned d into frame f
Dispatched(f, d) ==
    /\ enc' = d.enc
    /\ pyErr' = Raise(d.err)
    /\ IF d.type = "JT_INVALID"
       THEN /\ stack' = Pop
            /\ pc' = AfterPop
            /\ out' = out
       ELSE IF IsLiteralTag(d.type)
       THEN /\ stack' = SetTop([f EXCEPT !.pos = "endTypeContext"])
            /\ out' = out \o WriteLiteral(d.type)
            /\ pc' = pc
       ELSE /\ stack' = SetTop([f EXCEPT !.pos = IF IsPrimitiveTag(d.type)
                                                 THEN "getValue" ELSE "iterBegin"])
            /\ out' = out
            /\ pc' = pc

Published(f, d) == [f EXCEPT !.type = d.type, !.prv = d.prv, !.tctx = d.pc]

\* the JSONTypeContext of a dispatch that left through the handler
HandledTc(arg, prv, pending) ==
    [obj |-> arg, type |-> "JT_INVALID", staged |-> prv = "basic", prv |-> prv,
     longValue |-> 0, pending |-> pending, live |-> {}]

\* the dispatcher's call of Object_invokeDefaultHandler on arg in frame f:
\* enc1 is the encoder at the call, h what the handler call came to.  When
\* the result is encoded the nested encode() runs before the dispatcher
\* goes on; else the dispatcher finishes at once.
InvokeDefaultHandler(f, arg, enc1, h) ==
    /\ handlerCalls' = Append(handlerCalls, arg)
    /\ out' = out
    /\ IF h.encodes
       THEN /\ stack' = Push([f EXCEPT !.pos = "handler", !.arg = arg, !.mark = Len(out)],
                             NewFrame(h.tmpObj))
            /\ enc' = enc1
            /\ pyErr' = ""
            /\ pc' = pc
            /\ lastTc' = lastTc
       ELSE /\ stack' = Pop
            /\ pc' = AfterPop
            /\ enc' = IF f.prv = "basic"
                      THEN [enc1 EXCEPT !.npyCtxtPassthru = 0, !.npyType = -1] ELSE enc1
            /\ pyErr' = h.err
            /\ lastTc' = HandledTc(arg, f.prv, pyErr)

\* encode() returns at once when the writer already holds an error
Object_beginTypeContext ==
    /\ At("begin")
    /\ IF enc.errorMsg
       THEN /\ stack' = Pop
            /\ pc' = AfterPop
            /\ UNCHANGED <<enc, pyErr, out, lastTc, handlerCalls>>
       ELSE IF CallsDefaultHandler(TOP.obj, enc)
       THEN IF enc.npyType >= 0
            THEN InvokeDefaultHandler(
                     [TOP EXCEPT !.type = "JT_INVALID", !.prv = "basic"],
                     PyArray_GETITEM(npyarrs[enc.npyCtxtPassthru].array, enc.npyValue.off),
                     [enc EXCEPT !.npyType = -1],
                     Object_invokeDefaultHandler(
                         PyArray_GETITEM(npyarrs[enc.npyCtxtPassthru].array,
                                         enc.npyValue.off),
                         enc.defaultHandler, pyErr))
            ELSE InvokeDefaultHandler(
                     [TOP EXCEPT !.type = "JT_INVALID", !.prv = "NULL"], TOP.obj, enc,
                     Object_invokeDefaultHandler(TOP.obj, enc.defaultHandler, ""))
       ELSE IF Dispatch(TOP.obj, enc, pyErr, PassthruLabels).err = NULL_DEREFERENCE
       THEN /\ pc' = "crashed"
            /\ UNCHANGED <<enc, pyErr, stack, out, lastTc, handlerCalls>>
       ELSE /\ Dispatched(Published(TOP, Dispatch(TOP.obj, enc, pyErr, PassthruLabels)),
                          Dispatch(TOP.obj, enc, pyErr, PassthruLabels))
            /\ lastTc' = [obj |-> IF enc.npyType >= 0
                                  THEN PyArray_GETITEM(enc.npyValue.arr, enc.npyValue.off)
                                  ELSE TOP.obj,
                          type |-> Dispatch(TOP.obj, enc, pyErr, PassthruLabels).type,
                          staged |-> enc.npyType >= 0,
                          prv |-> Dispatch(TOP.obj, enc, pyErr, PassthruLabels).prv,
                          longValue |->
                              Dispatch(TOP.obj, enc, pyErr, PassthruLabels).pc.longValue,
                          pending |-> pyErr,
                          live |-> LiveAllocations(
                              Dispatch(TOP.obj, enc, pyErr, PassthruLabels).pc)]
            /\ handlerCalls' = handlerCalls
    /\ UNCHANGED <<input, npyarrs, result>>

\* the dispatcher once the encode() of the handler's result is back: a
\* staged primitive clears the staging slots, a fallback value leaves
\* through INVALID
Object_invokeDefaultHandler_return ==
    /\ At("handled")
    /\ enc' = IF TOP.prv = "basic"
              THEN [enc EXCEPT !.npyCtxtPassthru = 0, !.npyType = -1] ELSE enc
    /\ lastTc' = HandledTc(TOP.arg, TOP.prv, "")
    /\ stack' = Pop
    /\ pc' = AfterPop
    /\ UNCHANGED <<input, pyErr, out, npyarrs, result, handlerCalls>>

\* the writer's step once the coercer returned payload p
Coerced(p) ==
    /\ out' = out \o WriteScalar(p)
    /\ enc' = [enc EXCEPT !.errorMsg = @ \/ WriteFails(p),
                          !.basicTypeContext = IF TOP.prv = "basic" THEN p.pc ELSE @]
    /\ pyErr' = Raise(p.err)
    /\ stack' = SetTop([TOP EXCEPT !.pos = "endTypeContext",
                                   !.tctx = IF TOP.prv = "own" THEN p.pc ELSE @])

\* Object_getLongValue / Object_getDoubleValue / Object_getStringValue
Object_getValue ==
    /\ At("getValue")
    /\ Coerced(PyTypeToJSON(GET_TC.PyTypeToJSON, TOP.obj, GET_TC,
                            enc.datetimeIso, enc.datetimeUnit))
    /\ UNCHANGED <<pc, input, npyarrs, result, lastTc, handlerCalls>>

\* PyObject_Free(cStr) on a buffer that was released before is undefined:
\* the allocator aborts the process or goes on
Object_endTypeContext ==
    /\ At("endTypeContext")
    /\ \/ /\ enc' = IF TOP.prv = "basic"
                    THEN [enc EXCEPT !.basicTypeContext = EndTypeContextPc(@)]
                    ELSE enc
          /\ stack' = Pop
          /\ pc' = AfterPop
          /\ UNCHANGED <<input, pyErr, out, npyarrs, result, lastTc, handlerCalls>>
       \/ /\ TOP.prv # "NULL"
          /\ GET_TC.cStr = FREEDSTR
          /\ Crash

(***************************************************************************)
(* The writer's steps around the iterator callbacks                        *)
(***************************************************************************)
OpenChar(f) == IF f.type = "JT_OBJECT" THEN "{" ELSE "["
CloseChar(f) == IF f.type = "JT_OBJECT" THEN "}" ELSE "]"

\* after iterBegin: the opening bracket
WriterAfterBegin(f) ==
    /\ stack' = SetTop([f EXCEPT !.pos = "iterNext"])
    /\ out' = out \o <<OpenChar(f)>>

\* after iterNext returned ret: the separator, iterGetValue, and for an
\* object the call of iterGetName; for an array the recursion into the item
WriterAfterNext(f, ret) ==
    IF ret = 0
    THEN /\ stack' = SetTop([f EXCEPT !.pos = "iterEnd"])
         /\ out' = out
    ELSE /\ out' = out \o (IF f.count > 0 THEN <<",">> ELSE <<>>)
         /\ IF f.type = "JT_OBJECT"
            THEN stack' = SetTop([f EXCEPT !.pos = "iterGetName"])
            ELSE stack' = Push([f EXCEPT !.pos = "child"], NewFrame(f.tctx.itemValue))

\* after iterGetName returned name (hasName: a non-NULL pointer): the
\* quoted key and colon, then the recursion into the item; spliced is what
\* the callback itself appended to the buffer
WriterAfterName(f, spliced, hasName, name) ==
    /\ out' = out \o spliced
                   \o (IF hasName /\ ~enc.errorMsg THEN Buffer_Quote(name) \o <<":">> ELSE <<>>)
    /\ stack' = Push([f EXCEPT !.pos = "child"], NewFrame(f.tctx.itemValue))

\* after iterEnd: the closing bracket
WriterAfterEnd(f) ==
    /\ stack' = SetTop([f EXCEPT !.pos = "endTypeContext"])
    /\ out' = out \o <<CloseChar(f)>>

(***************************************************************************)
(* Text of a C string literal, with its terminator                         *)
(***************************************************************************)
Str_name == <<"n", "a", "m", "e", NUL>>
Str_index == <<"i", "n", "d", "e", "x", NUL>>
Str_data == <<"d", "a", "t", "a", NUL>>
Str_columns == <<"c", "o", "l", "u", "m", "n", "s", NUL>>
CStrText(cStr) == Slice(cStr, 0, strlen(cStr))

\* the get_values() result of a driver step and the error it leaves
ValuesErr(v) == IF v.k = "NULL" THEN ValuesError ELSE ""

(***************************************************************************)
(* List driver                                                             *)
(***************************************************************************)
List_iterBegin ==
    /\ At("iterBegin") /\ TOP.tctx.iterBegin = "List_iterBegin"
    /\ WriterAfterBegin([TOP EXCEPT !.tctx.index = 0, !.tctx.size = Len(TOP.obj.items)])
    /\ UNCHANGED <<pc, input, enc, pyErr, npyarrs, result, lastTc, handlerCalls>>

List_iterNext ==
    /\ At("iterNext") /\ TOP.tctx.iterNext = "List_iterNext"
    /\ LET tc == TOP.tctx IN
       IF tc.index >= tc.size THEN WriterAfterNext(TOP, 0)
       ELSE WriterAfterNext([TOP EXCEPT !.tctx = Borrowed_itemValue(
                                                     @, TOP.obj.items[tc.index + 1]),
                                        !.tctx.index = tc.index + 1], 1)
    /\ UNCHANGED <<pc, input, enc, pyErr, npyarrs, result, lastTc, handlerCalls>>

List_iterEnd ==
    /\ At("iterEnd") /\ TOP.tctx.iterEnd = "List_iterEnd"
    /\ WriterAfterEnd(TOP)
    /\ UNCHANGED <<pc, input, enc, pyErr, npyarrs, result, lastTc, handlerCalls>>

(***************************************************************************)
(* Iterator driver (sets)                                                  *)
(***************************************************************************)
Iter_iterBegin ==
    /\ At("iterBegin") /\ TOP.tctx.iterBegin = "Iter_iterBegin"
    /\ WriterAfterBegin([TOP EXCEPT !.tctx = [Borrowed_itemValue(@, PyNULL)
                                              EXCEPT !.iterator = PyObject_GetIter(TOP.obj)]])
    /\ UNCHANGED <<pc, input, enc, pyErr, npyarrs, result, lastTc, handlerCalls>>

Iter_iterNext ==
    /\ At("iterNext") /\ TOP.tctx.iterNext = "Iter_iterNext"
    /\ LET tc == New_itemValue(Py_XDECREF_itemValue(TOP.tctx), PyNULL)
           it == TOP.tctx.iterator
       IN IF it.pos >= Len(it.items)
          THEN WriterAfterNext([TOP EXCEPT !.tctx = tc], 0)
          ELSE WriterAfterNext(
                   [TOP EXCEPT !.tctx = [New_itemValue(tc, it.items[it.pos + 1])
                                         EXCEPT !.iterator.pos = it.pos + 1]], 1)
    /\ UNCHANGED <<pc, input, enc, pyErr, npyarrs, result, lastTc, handlerCalls>>

Iter_iterEnd ==
    /\ At("iterEnd") /\ TOP.tctx.iterEnd = "Iter_iterEnd"
    /\ WriterAfterEnd([TOP EXCEPT !.tctx = [New_itemValue(Py_XDECREF_itemValue(@), PyNULL)
                                            EXCEPT !.iterator = PyNULL]])
    /\ UNCHANGED <<pc, input, enc, pyErr, npyarrs, result, lastTc, handlerCalls>>

(***************************************************************************)
(* Dict driver                                                             *)
(***************************************************************************)
\* (mutation used by C21: the key object is exposed as it is)
Dict_itemName_asIs(key) == key
\* the name Dict_iterNext keeps for a key: text as its UTF-8 bytes, bytes
\* unchanged, anything else as the UTF-8 bytes of its str()
Dict_itemName(key) ==
    IF PyUnicode_Check(key) THEN PyUnicode_AsUTF8String(key.s)
    ELSE IF ~PyBytes_Check(key) THEN PyUnicode_AsUTF8String(PyObject_Str(key))
    ELSE key

Dict_iterBegin ==
    /\ At("iterBegin") /\ TOP.tctx.iterBegin = "Dict_iterBegin"
    /\ WriterAfterBegin([TOP EXCEPT !.tctx.index = 0])
    /\ UNCHANGED <<pc, input, enc, pyErr, npyarrs, result, lastTc, handlerCalls>>

Dict_iterNext ==
    /\ At("iterNext") /\ TOP.tctx.iterNext = "Dict_iterNext"
    /\ LET tc == TOP.tctx IN
       IF tc.index >= Len(tc.dictObj.items)
       THEN WriterAfterNext(
                [TOP EXCEPT !.tctx = New_itemName(Py_XDECREF_itemName(tc), PyNULL)], 0)
       ELSE WriterAfterNext(
                [TOP EXCEPT !.tctx =
                    [Borrowed_itemValue(
                         New_itemName(Py_XDECREF_itemName(tc),
                                      Dict_itemName(tc.dictObj.items[tc.index + 1].key)),
                         tc.dictObj.items[tc.index + 1].value)
                     EXCEPT !.index = tc.index + 1]], 1)
    /\ UNCHANGED <<pc, input, enc, pyErr, npyarrs, result, lastTc, handlerCalls>>

Dict_iterGetName ==
    /\ At("iterGetName") /\ TOP.tctx.iterGetName = "Dict_iterGetName"
    /\ WriterAfterName(TOP, <<>>, TRUE, TOP.tctx.itemName.s)
    /\ UNCHANGED <<pc, input, enc, pyErr, npyarrs, result, lastTc, handlerCalls>>

Dict_iterEnd ==
    /\ At("iterEnd") /\ TOP.tctx.iterEnd = "Dict_iterEnd"
    /\ WriterAfterEnd([TOP EXCEPT !.tctx = New_itemName(Py_XDECREF_itemName(@), PyNULL)])
    /\ UNCHANGED <<pc, input, enc, pyErr, npyarrs, result, lastTc, handlerCalls>>

(***************************************************************************)
(* Attribute-Dir driver                                                    *)
(***************************************************************************)
\* the attributes the loop of Dir_iterNext passes over: a name starting
\* with an underscore, a fetch that fails, a callable value
Dir_skips(attr) ==
    \/ (attr.name \o <<NUL>>)[1] = "_"
    \/ attr.value.k = "NULL"
    \/ PyCallable_Check(attr.value)

\* the loop of Dir_iterNext: the position it stops at from index on, which
\* is size when no attribute is left to expose
RECURSIVE Dir_scan(_, _)
Dir_scan(attrList, index) ==
    IF index >= Len(attrList.items) THEN index
    ELSE IF Dir_skips(attrList.items[index + 1]) THEN Dir_scan(attrList, index + 1)
    ELSE index

\* itemValue and itemName released and cleared when set
Dir_released(tc) ==
    New_itemName(Py_XDECREF_itemName(New_itemValue(Py_XDECREF_itemValue(tc), PyNULL)),
                 PyNULL)

Dir_iterBegin ==
    /\ At("iterBegin") /\ TOP.tctx.iterBegin = "Dir_iterBegin"
    /\ WriterAfterBegin([TOP EXCEPT !.tctx.attrList = PyList(TOP.obj.attrs),
                                    !.tctx.index = 0,
                                    !.tctx.size = Len(TOP.obj.attrs)])
    /\ UNCHANGED <<pc, input, enc, pyErr, npyarrs, result, lastTc, handlerCalls>>

\* the attribute found is exposed and index is advanced twice: once where
\* the loop breaks and once after the loop
Dir_iterNext ==
    /\ At("iterNext") /\ TOP.tctx.iterNext = "Dir_iterNext"
    /\ LET tc == TOP.tctx IN
       IF pyErr # "" \/ enc.errorMsg THEN WriterAfterNext(TOP, 0)
       ELSE IF Dir_scan(tc.attrList, tc.index) >= tc.size
       THEN WriterAfterNext([TOP EXCEPT !.tctx = [Dir_released(tc) EXCEPT !.index = tc.size]],
                            0)
       ELSE WriterAfterNext(
                [TOP EXCEPT !.tctx =
                    [New_itemValue(
                         New_itemName(
                             Dir_released(tc),
                             PyBytes(tc.attrList.items[Dir_scan(tc.attrList, tc.index) + 1].name)),
                         tc.attrList.items[Dir_scan(tc.attrList, tc.index) + 1].value)
                     EXCEPT !.index = Dir_scan(tc.attrList, tc.index) + 2]], 1)
    /\ UNCHANGED <<pc, input, enc, pyErr, npyarrs, result, lastTc, handlerCalls>>

Dir_iterGetName ==
    /\ At("iterGetName") /\ TOP.tctx.iterGetName = "Dir_iterGetName"
    /\ WriterAfterName(TOP, <<>>, TRUE, TOP.tctx.itemName.s)
    /\ UNCHANGED <<pc, input, enc, pyErr, npyarrs, result, lastTc, handlerCalls>>

Dir_iterEnd ==
    /\ At("iterEnd") /\ TOP.tctx.iterEnd = "Dir_iterEnd"
    /\ WriterAfterEnd([TOP EXCEPT !.tctx = [Dir_released(@) EXCEPT !.attrList = PyNULL]])
    /\ UNCHANGED <<pc, input, enc, pyErr, npyarrs, result, lastTc, handlerCalls>>

(***************************************************************************)
(* Index driver (Split orientation)                                        *)
(***************************************************************************)
\* (mutation used by C8: the first key is data as well)
Index_key_data(index) == Str_data
Index_key(index) == IF index = 0 THEN Str_name ELSE Str_data
Index_item(obj, index) == IF index = 0 THEN obj.name ELSE get_values(obj)

Index_iterBegin ==
    /\ At("iterBegin") /\ TOP.tctx.iterBegin = "Index_iterBegin"
    /\ WriterAfterBegin([TOP EXCEPT !.tctx.index = 0, !.tctx.cStr = UNINITSTR])
    /\ UNCHANGED <<pc, input, enc, pyErr, npyarrs, result, lastTc, handlerCalls>>

Index_iterNext ==
    /\ At("iterNext") /\ TOP.tctx.iterNext = "Index_iterNext"
    /\ LET tc == TOP.tctx
           item == Index_item(TOP.obj, tc.index)
       IN IF tc.cStr = NULLSTR
          THEN WriterAfterNext(TOP, 0) /\ pyErr' = pyErr
          ELSE IF tc.index > 1
          THEN WriterAfterNext([TOP EXCEPT !.tctx = Py_XDECREF_itemValue(tc)], 0)
               /\ pyErr' = pyErr
          ELSE LET f == [TOP EXCEPT !.tctx =
                            [New_itemValue(Py_XDECREF_itemValue(tc), item)
                             EXCEPT !.cStr = Index_key(tc.index)]]
               IN IF item.k = "NULL"
                  THEN WriterAfterNext(f, 0) /\ pyErr' = Raise(ValuesErr(item))
                  ELSE /\ WriterAfterNext([f EXCEPT !.tctx.index = tc.index + 1], 1)
                       /\ pyErr' = pyErr
    /\ UNCHANGED <<pc, input, enc, npyarrs, result, lastTc, handlerCalls>>

Index_iterGetName ==
    /\ At("iterGetName") /\ TOP.tctx.iterGetName = "Index_iterGetName"
    /\ WriterAfterName(TOP, <<>>, TRUE, CStrText(TOP.tctx.cStr))
    /\ UNCHANGED <<pc, input, enc, pyErr, npyarrs, result, lastTc, handlerCalls>>

Index_iterEnd ==
    /\ At("iterEnd") /\ TOP.tctx.iterEnd = "Index_iterEnd"
    /\ WriterAfterEnd(TOP)
    /\ UNCHANGED <<pc, input, enc, pyErr, npyarrs, result, lastTc, handlerCalls>>

(***************************************************************************)
(* Series driver (Split orientation)                                       *)
(***************************************************************************)
\* (mutation used by C6: the index and data keys are exchanged)
Series_key_swapped(index) ==
    CASE index = 0 -> Str_name
      [] index = 1 -> Str_data
      [] OTHER -> Str_index
Series_key(index) ==
    CASE index = 0 -> Str_name
      [] index = 1 -> Str_index
      [] OTHER -> Str_data
Series_item(obj, index) ==
    CASE index = 0 -> obj.name
      [] index = 1 -> obj.index
      [] OTHER -> get_values(obj)

Series_iterBegin ==
    /\ At("iterBegin") /\ TOP.tctx.iterBegin = "Series_iterBegin"
    /\ enc' = [enc EXCEPT !.outputFormat = "VALUES"]
    /\ WriterAfterBegin([TOP EXCEPT !.tctx.index = 0, !.tctx.cStr = UNINITSTR])
    /\ UNCHANGED <<pc, input, pyErr, npyarrs, result, lastTc, handlerCalls>>

Series_iterNext ==
    /\ At("iterNext") /\ TOP.tctx.iterNext = "Series_iterNext"
    /\ LET tc == TOP.tctx
           item == Series_item(TOP.obj, tc.index)
       IN IF tc.cStr = NULLSTR
          THEN WriterAfterNext(TOP, 0) /\ pyErr' = pyErr
          ELSE IF tc.index > 2
          THEN WriterAfterNext([TOP EXCEPT !.tctx = Py_XDECREF_itemValue(tc)], 0)
               /\ pyErr' = pyErr
          ELSE LET f == [TOP EXCEPT !.tctx =
                            [New_itemValue(Py_XDECREF_itemValue(tc), item)
                             EXCEPT !.cStr = Series_key(tc.index)]]
               IN IF item.k = "NULL"
                  THEN WriterAfterNext(f, 0) /\ pyErr' = Raise(ValuesErr(item))
                  ELSE /\ WriterAfterNext([f EXCEPT !.tctx.index = tc.index + 1], 1)
                       /\ pyErr' = pyErr
    /\ UNCHANGED <<pc, input, enc, npyarrs, result, lastTc, handlerCalls>>

Series_iterGetName ==
    /\ At("iterGetName") /\ TOP.tctx.iterGetName = "Series_iterGetName"
    /\ WriterAfterName(TOP, <<>>, TRUE, CStrText(TOP.tctx.cStr))
    /\ UNCHANGED <<pc, input, enc, pyErr, npyarrs, result, lastTc, handlerCalls>>

Series_iterEnd ==
    /\ At("iterEnd") /\ TOP.tctx.iterEnd = "Series_iterEnd"
    /\ enc' = [enc EXCEPT !.outputFormat = enc.originalOutputFormat]
    /\ WriterAfterEnd(TOP)
    /\ UNCHANGED <<pc, input, pyErr, npyarrs, result, lastTc, handlerCalls>>

(***************************************************************************)
(* DataFrame driver                                                        *)
(***************************************************************************)
\* (mutation used by C2: Records is left in force for the rows)
DataFrame_childFormat_keep(fmt) == IF fmt = "SPLIT" THEN "VALUES" ELSE fmt
\* the orientation a table's children are dispatched under
DataFrame_childFormat(fmt) ==
    CASE fmt = "SPLIT" -> "VALUES"
      [] fmt = "RECORDS" -> "INDEX"
      [] OTHER -> fmt
\* (mutation used by C1: every orientation walks the rows)
DataFrame_iterMethod_rows(fmt) == "iterrows"
\* the iteration method called on the table
DataFrame_iterMethod(fmt) == IF fmt = "COLUMNS" THEN "items" ELSE "iterrows"
DataFrame_callMethod(obj, method) ==
    IF method = "items" THEN DataFrame_items(obj) ELSE DataFrame_iterrows(obj)

DataFrame_key(index) ==
    CASE index = 0 -> Str_columns
      [] index = 1 -> Str_index
      [] OTHER -> Str_data
DataFrame_item(obj, index) ==
    CASE index = 0 -> obj.columns
      [] index = 1 -> obj.index
      [] OTHER -> get_values(obj)

\* (mutation used by C12: the key is read one label further)
DataFrame_labelIndex_next(tc) == tc.index
\* the label get-name reads: the step iterNext just counted, 0-based
DataFrame_labelIndex(tc) == tc.index - 1

\* what goes wrong in the table driver's begin during this call: "call"
\* (the items / iterrows method raises), "frame" (no memory for the frame
\* slot), "key" (no memory for the key buffer) or "none"
DataFrame_beginFault ==
    IF input.param.root = "tablefault" THEN input.param.fault ELSE "none"
MethodRaised == "RuntimeError: raised by the iteration method"
MemoryError == "MemoryError"

DataFrame_iterBegin ==
    /\ At("iterBegin") /\ TOP.tctx.iterBegin = "DataFrame_iterBegin"
    /\ LET fmt == enc.outputFormat
           e0 == [enc EXCEPT !.originalOutputFormat = fmt]
           e1 == [e0 EXCEPT !.outputFormat = DataFrame_childFormat(fmt)]
       IN IF fmt = "SPLIT"
          THEN /\ enc' = e1
               /\ pyErr' = IF DataFrame_beginFault = "key" THEN Raise(MemoryError) ELSE pyErr
               /\ WriterAfterBegin(
                      [TOP EXCEPT !.tctx.index = 0, !.fmt = fmt,
                                  !.tctx.cStr = IF DataFrame_beginFault = "key"
                                                THEN NULLSTR ELSE UNINITSTR])
          ELSE IF DataFrame_beginFault = "call"
          THEN /\ enc' = e0
               /\ pyErr' = Raise(MethodRaised)
               /\ WriterAfterBegin([TOP EXCEPT !.tctx.index = 0, !.fmt = fmt])
          ELSE IF DataFrame_beginFault = "frame"
          THEN /\ enc' = e0
               /\ pyErr' = Raise(MemoryError)
               /\ WriterAfterBegin([TOP EXCEPT !.tctx.index = 0, !.fmt = fmt,
                                               !.tctx.iterNext = "NpyArr_iterNextNone"])
          ELSE /\ enc' = e1
               /\ pyErr' = pyErr
               /\ WriterAfterBegin(
                      [TOP EXCEPT !.tctx.index = 0, !.fmt = fmt,
                                  !.tctx.frame =
                                      [isNull |-> FALSE,
                                       iterable |-> DataFrame_callMethod(
                                                        TOP.obj, DataFrame_iterMethod(fmt)),
                                       pos |-> 0]])
    /\ UNCHANGED <<pc, input, npyarrs, result, lastTc, handlerCalls>>

NpyArr_iterNextNone ==
    /\ At("iterNext") /\ TOP.tctx.iterNext = "NpyArr_iterNextNone"
    /\ WriterAfterNext(TOP, 0)
    /\ UNCHANGED <<pc, input, enc, pyErr, npyarrs, result, lastTc, handlerCalls>>

\* reading through the NULL frame pointer, or writing through the NULL key
\* buffer, is undefined: the process dies or the read yields garbage that
\* ends the iteration
\* the previous entry is released: the item value always, the item name
\* under the orientations that take one
DataFrame_released(tc, oof) ==
    IF oof = "COLUMNS" \/ oof = "INDEX"
    THEN Py_XDECREF_itemName(Py_XDECREF_itemValue(tc))
    ELSE Py_XDECREF_itemValue(tc)

DataFrame_iterNext ==
    /\ At("iterNext") /\ TOP.tctx.iterNext = "DataFrame_iterNext"
    /\ LET tc == TOP.tctx
           oof == enc.originalOutputFormat
       IN IF oof = "SPLIT" THEN
              IF tc.index > 2
              THEN WriterAfterNext([TOP EXCEPT !.tctx = Py_XDECREF_itemValue(tc)], 0)
                   /\ UNCHANGED <<pc, input, enc, pyErr, npyarrs, result, lastTc, handlerCalls>>
              ELSE IF tc.cStr = NULLSTR THEN Crash
              ELSE LET item == DataFrame_item(TOP.obj, tc.index)
                       f == [TOP EXCEPT !.tctx =
                                [New_itemValue(Py_XDECREF_itemValue(tc), item)
                                 EXCEPT !.cStr = DataFrame_key(tc.index)]]
                   IN /\ IF item.k = "NULL" THEN WriterAfterNext(f, 0)
                         ELSE WriterAfterNext([f EXCEPT !.tctx.index = tc.index + 1], 1)
                      /\ pyErr' = Raise(ValuesErr(item))
                      /\ UNCHANGED <<pc, input, enc, npyarrs, result, lastTc, handlerCalls>>
          ELSE IF tc.frame.isNull THEN
              \E outcome \in {"crash", "exhausted"} :
                  IF outcome = "crash" THEN Crash
                  ELSE /\ WriterAfterNext([TOP EXCEPT !.tctx = DataFrame_released(tc, oof)], 0)
                       /\ UNCHANGED <<pc, input, enc, pyErr, npyarrs, result, lastTc, handlerCalls>>
          ELSE IF tc.frame.pos >= Len(tc.frame.iterable)
              THEN WriterAfterNext([TOP EXCEPT !.tctx = DataFrame_released(tc, oof)], 0)
                   /\ UNCHANGED <<pc, input, enc, pyErr, npyarrs, result, lastTc, handlerCalls>>
          ELSE LET tmp == tc.frame.iterable[tc.frame.pos + 1]
                   named == oof = "COLUMNS" \/ oof = "INDEX"
                   got == New_itemValue(DataFrame_released(tc, oof), tmp[2])
               IN /\ WriterAfterNext(
                        [TOP EXCEPT !.tctx =
                            [(IF named THEN New_itemName(got, tmp[1]) ELSE got)
                             EXCEPT !.frame.pos = @ + 1, !.index = @ + 1]], 1)
                  /\ UNCHANGED <<pc, input, enc, pyErr, npyarrs, result, lastTc, handlerCalls>>

\* (mutation used by C35: only the colon is dropped at the end)
DataFrame_labelName_long(cStr) ==
    [label |-> [cStr EXCEPT ![1 + (strlen(cStr) - 2) + 1] = NUL],
     name |-> Slice(cStr, 1, strlen(cStr) - 2), outLen |-> strlen(cStr) - 2]
\* what get-name makes of the pre-encoded label cStr: the pointer moves past
\* the first character, a terminator is written over the closing quote of
\* the label itself, and the key is the len - 3 characters in between
DataFrame_labelName(cStr) ==
    [label |-> [cStr EXCEPT ![1 + (strlen(cStr) - 3) + 1] = NUL],
     name |-> Slice(cStr, 1, strlen(cStr) - 3), outLen |-> strlen(cStr) - 3]

\* falling off the end of the function without a return value is undefined
DataFrame_iterGetName ==
    /\ At("iterGetName") /\ TOP.tctx.iterGetName = "DataFrame_iterGetName"
    /\ LET tc == TOP.tctx
           oof == enc.originalOutputFormat
           index == DataFrame_labelIndex(tc)
       IN IF oof = "SPLIT" THEN
              IF tc.cStr = NULLSTR THEN Crash
              ELSE /\ WriterAfterName(TOP, <<>>, TRUE, CStrText(tc.cStr))
                   /\ UNCHANGED <<pc, input, enc, pyErr, npyarrs, result, lastTc, handlerCalls>>
          ELSE IF oof = "COLUMNS" \/ oof = "INDEX" THEN
              IF tc.columnLabels.isNull \/ index < 0 \/ index >= Len(tc.columnLabels.arr)
              THEN Crash
              ELSE LET cStr == tc.columnLabels.arr[index + 1]
                   IN IF strlen(cStr) < 3 THEN Crash
                      ELSE /\ WriterAfterName(
                                [TOP EXCEPT !.tctx.columnLabels.arr[index + 1] =
                                                DataFrame_labelName(cStr).label],
                                <<>>, TRUE, DataFrame_labelName(cStr).name)
                           /\ UNCHANGED <<pc, input, enc, pyErr, npyarrs, result, lastTc, handlerCalls>>
          ELSE Crash

DataFrame_iterEnd ==
    /\ At("iterEnd") /\ TOP.tctx.iterEnd = "DataFrame_iterEnd"
    /\ LET oof == enc.originalOutputFormat
       IN \E outcome \in (IF oof # "SPLIT" /\ TOP.tctx.frame.isNull
                          THEN {"crash", "survive"} ELSE {"survive"}) :
              IF outcome = "crash" THEN Crash
              ELSE /\ enc' = [enc EXCEPT !.outputFormat = oof]
                   /\ WriterAfterEnd(TOP)
                   /\ UNCHANGED <<pc, input, pyErr, npyarrs, result, lastTc, handlerCalls>>

(***************************************************************************)
(* The n-dimensional array strider (NpyArrContext)                         *)
(***************************************************************************)
\* what a descent leaves behind of the level it left
NpyArr_level(npyarr) ==
    [curdim |-> npyarr.curdim, stridedim |-> npyarr.stridedim, dim |-> npyarr.dim,
     stride |-> npyarr.stride, dataptr |-> npyarr.dataptr]
NoLevel == [curdim |-> -1, stridedim |-> -1, dim |-> -1, stride |-> 0, dataptr |-> -1]

NpyArrContext(obj, tc) ==
    LET ndim == PyArray_NDIM(obj) - 1
        axis == IF tc.transpose # 0 THEN ndim ELSE 0
    IN [array |-> obj, dataptr |-> PyArray_DATA(obj), ndim |-> ndim, curdim |-> 0,
        type_num |-> PyArray_TYPE(obj),
        dim |-> PyArray_DIM(obj, axis), stride |-> PyArray_STRIDE(obj, axis),
        stridedim |-> axis, index |-> [d \in 0..(ndim + 1) |-> 0],
        inc |-> IF tc.transpose # 0 THEN -1 ELSE 1,
        columnLabels |-> tc.columnLabels, rowLabels |-> tc.rowLabels,
        live |-> TRUE,
        \* history: the data pointers of the elements handed out so far,
        \* the levels left by the descents not yet popped, and the level the
        \* last pop returned from
        emitted |-> <<>>, descents |-> <<>>, popped |-> NoLevel,
        \* history: the depth of the context whose begin allocated the
        \* strider, how often it was freed and the depth of the context
        \* whose end freed it last
        owner |-> 0, frees |-> 0, freedBy |-> 0]

\* (mutation used by C40: the end callback keeps the strider)
NpyArr_release_kept(npyarr, depth) == npyarr
\* PyObject_Free(npyarr) by the end callback of the context at depth
NpyArr_release(npyarr, depth) ==
    [npyarr EXCEPT !.live = FALSE, !.frees = @ + 1, !.freedBy = depth]

\* itemValue is released unless it is the strider's own array
NpyArr_freeItemValue(tc) ==
    IF tc.npyarr # 0
       /\ ~(tc.itemValue.k = "ndarray" /\ tc.itemValue = npyarrs[tc.npyarr].array)
    THEN New_itemValue(Py_XDECREF_itemValue(tc), PyNULL)
    ELSE tc

NpyArr_iterBegin ==
    /\ At("iterBegin") /\ TOP.tctx.iterBegin = "NpyArr_iterBegin"
    /\ LET tc == TOP.tctx
           obj == IF tc.newObj.k # "NULL" THEN tc.newObj ELSE TOP.obj
       IN /\ npyarrs' = Append(npyarrs, [NpyArrContext(obj, tc)
                                             EXCEPT !.owner = Len(stack)])
          /\ WriterAfterBegin([TOP EXCEPT !.tctx.npyarr = Len(npyarrs) + 1])
    /\ UNCHANGED <<pc, input, enc, pyErr, result, lastTc, handlerCalls>>

\* (mutation used by C22: the data pointer stays on the element)
NpyArr_itemDataptr_still(npyarr) == npyarr.dataptr
\* the data pointer after a leaf element was handed out
NpyArr_itemDataptr(npyarr) == npyarr.dataptr + npyarr.stride
\* (mutation used by C23: the index moves on by two)
NpyArr_itemIndex_two(i) == i + 2
\* the index entry after a leaf element was handed out
NpyArr_itemIndex(i) == i + 1

\* the body of NpyArr_iterNextItem on frame f: one leaf element
NpyArr_nextItem(f) ==
    LET tc == f.tctx
        id == tc.npyarr
        npyarr == npyarrs[id]
    IN IF pyErr # "" \/ npyarr.index[npyarr.stridedim] >= npyarr.dim
       THEN /\ WriterAfterNext(f, 0)
            /\ UNCHANGED <<enc, npyarrs>>
       ELSE LET tc1 == NpyArr_freeItemValue(tc)
                staged == PyTypeNum_ISDATETIME(PyArray_TYPE(npyarr.array))
                item == IF staged THEN f.obj
                        ELSE PyArray_GETITEM(npyarr.array, npyarr.dataptr)
            IN /\ WriterAfterNext([f EXCEPT !.tctx = New_itemValue(tc1, item)], 1)
               /\ enc' = IF staged
                         THEN [enc EXCEPT !.npyType = PyArray_TYPE(npyarr.array),
                                          !.npyValue = [arr |-> npyarr.array,
                                                        off |-> npyarr.dataptr],
                                          !.npyCtxtPassthru = id]
                         ELSE enc
               /\ npyarrs' = [npyarrs EXCEPT ![id].dataptr = NpyArr_itemDataptr(npyarr),
                                             ![id].index[npyarr.stridedim] =
                                                 NpyArr_itemIndex(@),
                                             ![id].emitted = Append(@, npyarr.dataptr)]

NpyArr_iterNextItem ==
    /\ At("iterNext") /\ TOP.tctx.iterNext = "NpyArr_iterNextItem"
    /\ NpyArr_nextItem(TOP)
    /\ UNCHANGED <<pc, input, pyErr, result, lastTc, handlerCalls>>

NpyArr_iterNext ==
    /\ At("iterNext") /\ TOP.tctx.iterNext = "NpyArr_iterNext"
    /\ LET tc == TOP.tctx
           id == tc.npyarr
           npyarr == npyarrs[id]
       IN IF pyErr # ""
          THEN WriterAfterNext(TOP, 0) /\ UNCHANGED <<enc, npyarrs>>
          ELSE IF npyarr.curdim >= npyarr.ndim
                  \/ npyarr.index[npyarr.stridedim] >= npyarr.dim
          THEN NpyArr_nextItem([TOP EXCEPT !.tctx.iterNext = "NpyArr_iterNextItem"])
          ELSE LET sd == npyarr.stridedim + npyarr.inc
                   deeper == [npyarr EXCEPT
                                 !.index = [[@ EXCEPT ![npyarr.stridedim] = @ + 1]
                                               EXCEPT ![sd] = 0],
                                 !.curdim = @ + 1,
                                 !.stridedim = sd,
                                 !.dim = PyArray_DIM(npyarr.array, sd),
                                 !.stride = PyArray_STRIDE(npyarr.array, sd),
                                 !.descents = Append(@, NpyArr_level(npyarr))]
               IN /\ npyarrs' = [npyarrs EXCEPT ![id] = deeper]
                  /\ enc' = [enc EXCEPT !.npyCtxtPassthru = id]
                  /\ WriterAfterNext([TOP EXCEPT !.tctx = Borrowed_itemValue(@, npyarr.array)],
                                     1)
    /\ UNCHANGED <<pc, input, pyErr, result, lastTc, handlerCalls>>

\* NpyArr_getLabel copies the pre-encoded label (quote, body, quote, colon)
\* straight into the output and hands the writer no name
NpyArr_iterGetName ==
    /\ At("iterGetName") /\ TOP.tctx.iterGetName = "NpyArr_iterGetName"
    /\ LET tc == TOP.tctx
           npyarr == npyarrs[tc.npyarr]
           leaf == tc.iterNext = "NpyArr_iterNextItem"
           sd == IF leaf THEN npyarr.stridedim ELSE npyarr.stridedim - npyarr.inc
           labels == IF leaf THEN npyarr.columnLabels ELSE npyarr.rowLabels
       IN IF labels.isNull \/ sd \notin DOMAIN npyarr.index
             \/ npyarr.index[sd] - 1 < 0 \/ npyarr.index[sd] - 1 >= Len(labels.arr)
          THEN Crash
          ELSE /\ WriterAfterName(TOP, CStrText(labels.arr[npyarr.index[sd] - 1 + 1]),
                                  FALSE, <<>>)
               /\ UNCHANGED <<pc, input, enc, pyErr, npyarrs, result, lastTc, handlerCalls>>

NpyArr_iterEnd ==
    /\ At("iterEnd") /\ TOP.tctx.iterEnd = "NpyArr_iterEnd"
    /\ LET tc == TOP.tctx IN
       IF tc.npyarr # 0
       THEN /\ npyarrs' = [npyarrs EXCEPT ![tc.npyarr] = NpyArr_release(@, Len(stack))]
            /\ WriterAfterEnd([TOP EXCEPT !.tctx = NpyArr_freeItemValue(tc)])
       ELSE /\ npyarrs' = npyarrs
            /\ WriterAfterEnd(TOP)
    /\ UNCHANGED <<pc, input, enc, pyErr, result, lastTc, handlerCalls>>

NpyArrPassThru_iterBegin ==
    /\ At("iterBegin") /\ TOP.tctx.iterBegin = "NpyArrPassThru_iterBegin"
    /\ WriterAfterBegin(TOP)
    /\ UNCHANGED <<pc, input, enc, pyErr, npyarrs, result, lastTc, handlerCalls>>

\* (mutation used by C11: the inner advance is not taken back)
NpyArrPassThru_dataptr_kept(npyarr, sd) ==
    npyarr.dataptr + PyArray_STRIDE(npyarr.array, sd)
\* the data pointer after a finished dimension: reset to where the inner
\* axis started, then advanced by one stride of the outer axis sd
NpyArrPassThru_dataptr(npyarr, sd) ==
    npyarr.dataptr - npyarr.stride * npyarr.index[npyarr.stridedim]
    + PyArray_STRIDE(npyarr.array, sd)

\* (mutation used by C24: the stride axis is not stepped back)
NpyArrPassThru_stridedim_stay(npyarr) == npyarr.stridedim
\* the stride axis after a finished dimension
NpyArrPassThru_stridedim(npyarr) == npyarr.stridedim - npyarr.inc

NpyArrPassThru_iterEnd ==
    /\ At("iterEnd") /\ TOP.tctx.iterEnd = "NpyArrPassThru_iterEnd"
    /\ LET tc == TOP.tctx
           id == tc.npyarr
           npyarr == npyarrs[id]
           sd == NpyArrPassThru_stridedim(npyarr)
       IN IF sd < 0 \/ sd >= PyArray_NDIM(npyarr.array) THEN Crash
          ELSE /\ npyarrs' =
                     [npyarrs EXCEPT ![id] =
                        [npyarr EXCEPT
                            !.curdim = @ - 1,
                            !.dataptr = NpyArrPassThru_dataptr(npyarr, sd),
                            !.stridedim = sd,
                            !.dim = PyArray_DIM(npyarr.array, sd),
                            !.stride = PyArray_STRIDE(npyarr.array, sd),
                            !.descents = IF @ = <<>> THEN @ ELSE SubSeq(@, 1, Len(@) - 1),
                            !.popped = IF npyarr.descents = <<>> THEN NoLevel
                                       ELSE npyarr.descents[Len(npyarr.descents)]]]
               /\ WriterAfterEnd([TOP EXCEPT !.tctx = NpyArr_freeItemValue(tc)])
               /\ UNCHANGED <<pc, input, enc, pyErr, result, lastTc, handlerCalls>>

(***************************************************************************)
(* The values handed to the encoder                                        *)
(***************************************************************************)
ColNames == <<"x", "y", "z", "w">>
RowNames == <<"a", "b", "c", "d">>
\* an instant 1.5 s after the epoch, in nanoseconds
SomeInstant == 3 * 500000000

RangeIndex(n) == PyIndex(PyNone, Arr1("int", [i \in 1..n |-> PyInt(i - 1)]))
TextIndex(names, n) == PyIndex(PyNone, Arr1("object", [i \in 1..n |-> PyStr(<<names[i]>>)]))
MakeIndex(kind, n) == IF kind = "int" THEN RangeIndex(n) ELSE TextIndex(RowNames, n)

\* a 1 x 1 table used as a cell of another table
InnerFrame == PyDataFrame(TextIndex(ColNames, 1), RangeIndex(1),
                          Arr2("int", <<<<PyInt(7)>>>>, 1, 1))

\* the k-th (1-based) of n elements of a fill pattern
FillType(fill) ==
    CASE fill \in {"int", "float", "datetime"} -> fill
      [] OTHER -> "object"
FillCell(fill, k, n) ==
    CASE fill = "int" -> PyInt(k)
      [] fill = "float" -> IF k = n THEN PyNaN ELSE PyFloat(10 * k)
      [] fill = "datetime" -> IF k = n THEN NpDatetime64(get_nat)
                              ELSE NpDatetime64(SomeInstant + k)
      [] fill = "nested" -> IF k = n THEN InnerFrame ELSE PyInt(k)
      [] fill = "objinf" -> IF k = 1 THEN NpFloat("inf", 0) ELSE PyInt(k)
      [] OTHER -> CASE k % 4 = 1 -> PyStr(<<"p">>)
                    [] k % 4 = 2 -> PyBool(TRUE)
                    [] k % 4 = 3 -> PyNone
                    [] OTHER -> PyInt(k)

MakeVector(fill, n) == Arr1(FillType(fill), [k \in 1..n |-> FillCell(fill, k, n)])
MakeMatrix(fill, nr, nc) ==
    Arr2(FillType(fill),
         [i \in 1..nr |-> [j \in 1..nc |-> FillCell(fill, (i - 1) * nc + j, nr * nc)]],
         nr, nc)
\* the same elements laid out column-major (a transposed view)
MakeMatrixF(fill, nr, nc) ==
    NdArray(FillType(fill), <<nr, nc>>, <<1, nr>>,
            Flatten([j \in 1..nc |->
                        [i \in 1..nr |-> FillCell(fill, (i - 1) * nc + j, nr * nc)]]))

\* k-dimensional arrays, 1 <= k <= 3, every axis of size 0..MaxAxis
Ranks == 1..3
Shapes == UNION {[1..k -> 0..MaxAxis] : k \in Ranks}
\* C: row-major contiguous; F: column-major; rev: the last axis reversed
\* (negative stride); step: every other element along the last axis
Layouts == {"C", "F", "rev", "step"}
SuffixProduct(dims, i) == Product(SubSeq(dims, i + 1, Len(dims)))
PrefixProduct(dims, i) == Product(SubSeq(dims, 1, i - 1))
LayoutStrides(dims, layout) ==
    [i \in 1..Len(dims) |->
        CASE layout = "C" -> SuffixProduct(dims, i)
          [] layout = "F" -> PrefixProduct(dims, i)
          [] layout = "rev" -> IF i = Len(dims) THEN -1 ELSE SuffixProduct(dims, i)
          [] layout = "step" -> 2 * SuffixProduct(dims, i)]
LayoutData(dims, layout) ==
    IF layout = "rev" /\ dims[Len(dims)] > 0 THEN dims[Len(dims)] - 1 ELSE 0
\* the multi-index (0-based, per axis) of the r-th element (0-based) in
\* row-major order
RowMajorIndex(dims, r) ==
    [i \in 1..Len(dims) |-> (r \div SuffixProduct(dims, i)) % dims[i]]
RECURSIVE Dot(_, _)
Dot(a, b) == IF a = <<>> THEN 0 ELSE Head(a) * Head(b) + Dot(Tail(a), Tail(b))
\* the array of the given shape and layout whose element of row-major rank
\* r is the (r + 1)-th element of the fill pattern
MakeNd(fill, dims, layout) ==
    NdView(FillType(fill), dims, LayoutStrides(dims, layout), LayoutData(dims, layout),
           [o \in 1..(Product(dims) * (IF layout = "step" THEN 2 ELSE 1)) |->
               IF \E r \in 0..(Product(dims) - 1) :
                      LayoutData(dims, layout)
                      + Dot(LayoutStrides(dims, layout), RowMajorIndex(dims, r)) = o - 1
               THEN FillCell(fill,
                             1 + CHOOSE r \in 0..(Product(dims) - 1) :
                                   LayoutData(dims, layout)
                                   + Dot(LayoutStrides(dims, layout),
                                         RowMajorIndex(dims, r)) = o - 1,
                             Product(dims))
               ELSE PyNone])
NdParams ==
    {[root |-> "ndarray", fill |-> "int", dims |-> d, layout |-> l,
      orient |-> "COLUMNS", iso |-> FALSE, unit |-> "ms"] : d \in Shapes, l \in Layouts}
    \cup {[root |-> "ndarray", fill |-> "datetime", dims |-> d, layout |-> "F",
           orient |-> "COLUMNS", iso |-> iso, unit |-> "us"] :
             d \in Shapes, iso \in BOOLEAN}
    \* object buffers whose first element the writer refuses
    \cup {[root |-> "ndarray", fill |-> "objinf", dims |-> d, layout |-> "C",
           orient |-> "COLUMNS", iso |-> FALSE, unit |-> "ms"] :
             d \in {<<2>>, <<2, 1>>, <<2, 2>>}}

MakeTable(idx, fill, nr, nc) ==
    PyDataFrame(TextIndex(ColNames, nc), MakeIndex(idx, nr), MakeMatrix(fill, nr, nc))
MakeSeries(idx, fill, n) ==
    PySeries(PyStr(<<"v">>), MakeIndex(idx, n), MakeVector(fill, n))

ScalarNames ==
    {"true", "false", "none", "int", "negint", "bigint", "float", "nan", "inf",
     "bytes", "str", "decimal", "npint", "nptrue", "npfloat", "npinf", "0d"}
DateScalarNames == {"datetime", "NaT", "time", "dt64", "dt64nat", "delta", "deltanat"}
MakeScalar(name) ==
    CASE name = "true" -> PyBool(TRUE)
      [] name = "false" -> PyBool(FALSE)
      [] name = "none" -> PyNone
      [] name = "int" -> PyInt(42)
      [] name = "negint" -> PyInt(-7)
      [] name = "bigint" -> PyBigInt
      [] name = "float" -> PyFloat(15)
      [] name = "nan" -> PyNaN
      [] name = "inf" -> PyInf
      [] name = "bytes" -> PyBytes(<<"b">>)
      [] name = "str" -> PyStr(<<"s">>)
      [] name = "decimal" -> PyDecimal(25)
      [] name = "npint" -> NpInt(9)
      [] name = "nptrue" -> NpBool(TRUE)
      [] name = "npfloat" -> NpFloat("finite", 35)
      [] name = "npinf" -> NpFloat("inf", 0)
      [] name = "0d" -> NdArray("int", <<>>, <<>>, <<PyInt(1)>>)
      [] name = "datetime" -> PyDateTime(SomeInstant)
      [] name = "NaT" -> PyNaT
      [] name = "time" -> PyTime(<<"0", "1", ":", "0", "2", ":", "0", "3">>)
      [] name = "dt64" -> NpDatetime64(SomeInstant)
      [] name = "dt64nat" -> NpDatetime64(get_nat)
      [] name = "delta" -> PyDelta(TRUE, SomeInstant)
      [] name = "deltanat" -> PyDelta(TRUE, get_nat)

MakeList(fill) ==
    CASE fill = "scalars" -> PyList(<<PyInt(1), PyStr(<<"s">>), PyNone>>)
      [] fill = "empty" -> PyList(<<>>)
      [] fill = "nested" -> PyList(<<PyList(<<PyBool(TRUE)>>), PyFloat(25)>>)
      [] fill = "inf" -> PyList(<<PyInt(1), NpFloat("inf", 0), PyInt(2)>>)
      [] fill = "overflow" -> PyList(<<PyInt(1), PyBigInt, PyInt(2)>>)
      [] fill = "tables" -> PyList(<<InnerFrame, MakeSeries("text", "int", 1),
                                     RangeIndex(1)>>)
      [] fill = "siblings" -> PyList(<<MakeSeries("int", "nested", 1),
                                       MakeSeries("text", "int", 1)>>)
      [] fill = "objinf" -> PyList(<<MakeMatrix("objinf", 2, 1), PyInt(5)>>)

\* the argument tuples the state space is drawn from
Param(root, idx, fill, nr, nc, orient, iso, unit) ==
    [root |-> root, idx |-> idx, fill |-> fill, nr |-> nr, nc |-> nc,
     orient |-> orient, iso |-> iso, unit |-> unit]
PlainFills == {"int", "float", "object", "nested"}
Params ==
    {Param("table", idx, fill, nr, nc, o, FALSE, "ms") :
        idx \in {"int", "text"}, fill \in PlainFills,
        nr \in 0..MaxRows, nc \in 0..MaxCols, o \in Formats}
    \cup {Param("series", idx, fill, nr, 1, o, FALSE, "ms") :
        idx \in {"int", "text"}, fill \in PlainFills, nr \in 0..MaxRows, o \in Formats}
    \cup {Param("series", "int", "datetime", nr, 1, o, iso, unit) :
        nr \in 0..MaxRows, o \in Formats, iso \in BOOLEAN, unit \in Units}
    \cup {Param("index", idx, "labels", nr, 1, o, FALSE, "ms") :
        idx \in {"int", "text"}, nr \in 0..MaxRows, o \in Formats}
    \cup {Param(root, "none", fill, nr, nc, o, FALSE, "ms") :
        root \in {"array", "arrayF"}, fill \in {"int", "object"},
        nr \in 0..MaxRows, nc \in 0..MaxCols, o \in {"COLUMNS", "SPLIT"}}
    \cup {Param("vector", "none", "datetime", nr, 1, "COLUMNS", iso, unit) :
        nr \in 0..MaxRows, iso \in BOOLEAN, unit \in Units}
    \cup {Param("list", "none", fill, 0, 0, o, FALSE, "ms") :
        fill \in {"scalars", "empty", "nested", "tables", "inf", "overflow"},
        o \in Formats}
    \cup {Param("list", "none", "siblings", 0, 0, "SPLIT", FALSE, "ms"),
          Param("list", "none", "objinf", 0, 0, "COLUMNS", FALSE, "ms")}
    \cup {Param("scalar", "none", name, 0, 0, o, FALSE, "ms") :
        name \in ScalarNames, o \in {"COLUMNS", "SPLIT"}}
    \cup {Param("scalar", "none", name, 0, 0, "COLUMNS", iso, unit) :
        name \in DateScalarNames, iso \in BOOLEAN, unit \in Units}

MakeObj(p) ==
    CASE p.root = "table" -> MakeTable(p.idx, p.fill, p.nr, p.nc)
      [] p.root = "series" -> MakeSeries(p.idx, p.fill, p.nr)
      [] p.root = "index" -> MakeIndex(p.idx, p.nr)
      [] p.root = "array" -> MakeMatrix(p.fill, p.nr, p.nc)
      [] p.root = "arrayF" -> MakeMatrixF(p.fill, p.nr, p.nc)
      [] p.root = "vector" -> MakeVector(p.fill, p.nr)
      [] p.root = "ndarray" -> MakeNd(p.fill, p.dims, p.layout)
      [] p.root = "list" -> MakeList(p.fill)
      [] p.root = "scalar" -> MakeScalar(p.fill)

\* mappings
DictFills == {"ab", "mixed", "empty", "nested", "same", "set", "sets"}
MakeDict(fill) ==
    CASE fill = "ab" -> PyDict(<<DictItem(PyStr(<<"a">>), PyInt(1)),
                                 DictItem(PyStr(<<"b">>), PyNone)>>)
      [] fill = "mixed" -> PyDict(<<DictItem(PyBytes(<<"k">>), PyInt(1)),
                                    DictItem(PyInt(2), PyStr(<<"s">>)),
                                    DictItem(PyNone, PyBool(TRUE)),
                                    DictItem(PyStr(<<"n">>), PyList(<<PyInt(1)>>))>>)
      [] fill = "empty" -> PyDict(<<>>)
      [] fill = "nested" -> PyDict(<<DictItem(PyStr(<<"o">>),
                                              PyDict(<<DictItem(PyInt(-3), PyFloat(15))>>)),
                                     DictItem(PyStr(<<"z">>), PyInt(0))>>)
      [] fill = "same" -> PyDict(<<DictItem(PyInt(1), PyInt(1)),
                                   DictItem(PyStr(<<"1">>), PyInt(2))>>)
      [] fill = "set" -> PySet(<<PyInt(3), PyStr(<<"s">>), PyInt(1)>>)
      [] fill = "sets" -> PyDict(<<DictItem(PyStr(<<"e">>), PySet(<<>>)),
                                   DictItem(PyStr(<<"f">>), PySet(<<PyNone>>))>>)
DictParams == {[root |-> "dict", fill |-> fill] : fill \in DictFills}

\* values no dispatch branch matches
ObjectA ==
    PyObject("A", <<Attr(<<"_", "p">>, PyInt(1)), Attr(<<"a">>, PyInt(1)),
                    Attr(<<"m">>, PyCallable("text")), Attr(<<"x">>, PyStr(<<"s">>)),
                    Attr(<<"y">>, PyNULL)>>)
ObjectB == PyObject("B", <<Attr(<<"b">>, PyBool(TRUE))>>)
\* three data attributes next to each other
ObjectC ==
    PyObject("C", <<Attr(<<"a">>, PyInt(1)), Attr(<<"b">>, PyInt(2)),
                    Attr(<<"c">>, PyInt(3))>>)
FallbackFills == {"object", "inList", "two", "afterOverflow", "overflowAfter", "adjacent"}
MakeFallback(fill) ==
    CASE fill = "object" -> ObjectA
      [] fill = "inList" -> PyList(<<PyInt(1), ObjectB>>)
      [] fill = "two" -> PyList(<<ObjectA, ObjectB>>)
      [] fill = "afterOverflow" -> PyList(<<PyBigInt, ObjectB>>)
      [] fill = "overflowAfter" -> PyList(<<ObjectB, PyBigInt>>)
      [] fill = "adjacent" -> ObjectC
DefaultHandlers ==
    {PyNULL, PyCallable("text"), PyCallable("list"), PyCallable("raise"),
     PyCallable("null"), PyCallable("picky")}
FallbackParams ==
    {[root |-> "fallback", fill |-> fill, handler |-> h] :
        fill \in FallbackFills, h \in DefaultHandlers}

\* labelled containers whose labels are a numeric array of a dtype the
\* classifier has no case for (complex), as an element of a list
ComplexIndex(n) == PyIndex(PyNone, Arr1("complex", [i \in 1..n |-> PyComplex(i)]))
MakeLabelled(kind) ==
    CASE kind = "series" ->
            PyList(<<PySeries(PyStr(<<"v">>), ComplexIndex(2), MakeVector("int", 2))>>)
      [] kind = "table" ->
            PyList(<<PyDataFrame(ComplexIndex(2), RangeIndex(1),
                                 MakeMatrix("int", 1, 2))>>)
LabelledParams ==
    {[root |-> "labelled", kind |-> kind, handler |-> h] :
        kind \in {"series", "table"}, h \in {PyNULL, PyCallable("text")}}

\* the arguments of objToJSON: the value and the keyword options
OrientString(fmt) ==
    CASE fmt = "RECORDS" -> "records"
      [] fmt = "INDEX" -> "index"
      [] fmt = "SPLIT" -> "split"
      [] fmt = "VALUES" -> "values"
      [] fmt = "COLUMNS" -> "columns"
\* a call: the value, the keyword options, and for reference the
\* orientation, date mode and date unit those options ask for
MakeCall(obj, opt, p) ==
    [obj |-> obj, opt |-> opt, orient |-> ParseOrient(opt.sOrient),
     iso_dates |-> opt.oisoDates.k # "NULL" /\ PyObject_IsTrue(opt.oisoDates),
     date_unit |-> ParseDateUnit(opt.sdateFormat), param |-> p]
MakeInput(p) ==
    MakeCall(MakeObj(p),
             Options(Given(OrientString(p.orient)), Given(p.unit), OmittedInt,
                     IF p.iso THEN PyBool(TRUE) ELSE PyNULL, PyNULL, PyNULL),
             p)

\* calls that differ in their keyword options only
OrientArgs ==
    {Omitted} \cup {Given(o) : o \in {"records", "index", "split", "values", "columns",
                                       "bogus", "Records", ""}}
DateUnitArgs == {Omitted} \cup {Given(u) : u \in {"s", "ms", "us", "ns", "h", "MS"}}
PrecisionArgs ==
    {OmittedInt} \cup {GivenInt(n) : n \in {-1, 0, JSON_DOUBLE_MAX_DECIMALS,
                                              JSON_DOUBLE_MAX_DECIMALS + 1}}
HandlerArgs == {PyNULL, PyNone, PyCallable("text"), PyInt(3)}
OptionParams ==
    {[root |-> "options",
      opt |-> Options(o, u, n, PyNULL, h, a)] :
        o \in OrientArgs, u \in DateUnitArgs, n \in PrecisionArgs, h \in HandlerArgs,
        a \in {PyNULL, PyBool(FALSE)}}
MakeOptionCall(p) == MakeCall(PyInt(42), p.opt, p)
MakeLabelledCall(p) ==
    MakeCall(MakeLabelled(p.kind),
             Options(Omitted, Omitted, OmittedInt, PyNULL, p.handler, PyNULL), p)
MakeDictCall(p) == MakeCall(MakeDict(p.fill), DefaultOptions, p)

\* durations carrying a cached nanosecond value, of either sign
DurationValues == {SomeInstant, 0 - SomeInstant - 1, 0 - 999, 1999, 0, 1000, 0 - 1000}
DurationParams ==
    {[root |-> "duration", v |-> v, unit |-> unit] : v \in DurationValues, unit \in Units}
MakeDurationCall(p) ==
    MakeCall(PyDelta(TRUE, p.v),
             Options(Omitted, Given(p.unit), OmittedInt, PyNULL, PyNULL, PyNULL), p)

\* tables whose column labels are null, dates and numbers, as an element of
\* a list
LabelKinds == {"nulldate", "dt64", "float"}
MakeLabelKind(kind) ==
    PyList(<<PyDataFrame(
        PyIndex(PyNone,
                CASE kind = "nulldate" ->
                        Arr1("object", <<PyNone, PyDateTime(SomeInstant)>>)
                  [] kind = "dt64" ->
                        Arr1("datetime", <<NpDatetime64(SomeInstant),
                                           NpDatetime64(SomeInstant + 1)>>)
                  [] kind = "float" -> Arr1("float", <<PyFloat(15), PyFloat(25)>>)),
        RangeIndex(1), MakeMatrix("int", 1, 2))>>)
LabelKindParams ==
    {[root |-> "labelkinds", kind |-> kind, iso |-> iso] :
        kind \in LabelKinds, iso \in BOOLEAN}
MakeLabelKindCall(p) ==
    MakeCall(MakeLabelKind(p.kind),
             Options(Omitted, Omitted, OmittedInt,
                     IF p.iso THEN PyBool(TRUE) ELSE PyNULL, PyNULL, PyNULL), p)

\* tables whose driver's begin fails to set up its iteration state
TableFaultParams ==
    {[root |-> "tablefault", fault |-> f, orient |-> o, nr |-> nr] :
        f \in {"call", "frame"}, o \in Formats \ {"SPLIT"}, nr \in 0..MaxRows}
    \cup {[root |-> "tablefault", fault |-> "key", orient |-> "SPLIT", nr |-> nr] :
        nr \in 0..MaxRows}
MakeTableFaultCall(p) ==
    MakeCall(MakeTable("int", "int", p.nr, 1),
             Options(Given(OrientString(p.orient)), Omitted, OmittedInt, PyNULL, PyNULL,
                     PyNULL), p)

\* date values one of which is an invalid date
BadDateKinds == {"dt64", "datetime", "vector", "list"}
MakeBadDate(kind) ==
    CASE kind = "dt64" -> NpDatetime64(InvalidDate)
      [] kind = "datetime" -> PyDateTime(InvalidDate)
      [] kind = "vector" ->
            Arr1("datetime", <<NpDatetime64(SomeInstant), NpDatetime64(InvalidDate)>>)
      [] kind = "list" ->
            PyList(<<PyDateTime(SomeInstant), PyDateTime(InvalidDate)>>)
BadDateParams ==
    {[root |-> "baddate", kind |-> kind, iso |-> iso, unit |-> unit] :
        kind \in BadDateKinds, iso \in BOOLEAN, unit \in {"s", "ns"}}
MakeBadDateCall(p) ==
    MakeCall(MakeBadDate(p.kind),
             Options(Omitted, Given(p.unit), OmittedInt,
                     IF p.iso THEN PyBool(TRUE) ELSE PyNULL, PyNULL, PyNULL), p)
MakeFallbackCall(p) ==
    MakeCall(MakeFallback(p.fill),
             Options(Omitted, Omitted, OmittedInt, PyNULL, p.handler, PyNULL), p)

(***************************************************************************)
(* The state machine                                                       *)
(***************************************************************************)
Init ==
    /\ pc = "start"
    /\ \/ \E p \in Params \cup NdParams : input = MakeInput(p)
       \/ \E p \in OptionParams : input = MakeOptionCall(p)
       \/ \E p \in FallbackParams : input = MakeFallbackCall(p)
       \/ \E p \in LabelledParams : input = MakeLabelledCall(p)
       \/ \E p \in DictParams : input = MakeDictCall(p)
       \/ \E p \in BadDateParams : input = MakeBadDateCall(p)
       \/ \E p \in TableFaultParams : input = MakeTableFaultCall(p)
       \/ \E p \in LabelKindParams : input = MakeLabelKindCall(p)
       \/ \E p \in DurationParams : input = MakeDurationCall(p)
    /\ enc = InitialEncoder(DefaultOptions)
    /\ pyErr = ""
    /\ stack = <<>>
    /\ out = <<>>
    /\ npyarrs = <<>>
    /\ result = "none"
    /\ lastTc = [obj |-> PyNULL, type |-> "NONE", staged |-> FALSE, prv |-> "NULL",
                 longValue |-> 0, pending |-> "", live |-> {}]
    /\ handlerCalls = <<>>

Next ==
    \/ objToJSON_call
    \/ Object_beginTypeContext
    \/ Object_invokeDefaultHandler_return
    \/ Object_getValue
    \/ Object_endTypeContext
    \/ List_iterBegin
    \/ List_iterNext
    \/ List_iterEnd
    \/ Iter_iterBegin
    \/ Iter_iterNext
    \/ Iter_iterEnd
    \/ Dict_iterBegin
    \/ Dict_iterNext
    \/ Dict_iterGetName
    \/ Dict_iterEnd
    \/ Dir_iterBegin
    \/ Dir_iterNext
    \/ Dir_iterGetName
    \/ Dir_iterEnd
    \/ Index_iterBegin
    \/ Index_iterNext
    \/ Index_iterGetName
    \/ Index_iterEnd
    \/ Series_iterBegin
    \/ Series_iterNext
    \/ Series_iterGetName
    \/ Series_iterEnd
    \/ DataFrame_iterBegin
    \/ DataFrame_iterNext
    \/ DataFrame_iterGetName
    \/ DataFrame_iterEnd
    \/ NpyArr_iterNextNone
    \/ NpyArr_iterBegin
    \/ NpyArr_iterNext
    \/ NpyArr_iterNextItem
    \/ NpyArr_iterGetName
    \/ NpyArr_iterEnd
    \/ NpyArrPassThru_iterBegin
    \/ NpyArrPassThru_iterEnd
    \/ objToJSON_return

Spec == Init /\ [][Next]_vars

(***************************************************************************)
(* The label pre-encoder on label arrays of any length: labeled vectors    *)
(* whose label array and data differ in length, which the tabular library  *)
(* does not build but the encoder guards against                           *)
(***************************************************************************)
MismatchParams ==
    {[root |-> "mismatch", idx |-> idx, ni |-> ni, nv |-> nv, orient |-> o] :
        idx \in {"int", "text"}, ni \in 0..MaxLabels, nv \in 0..MaxLabels,
        o \in {"INDEX", "COLUMNS"}}
MakeMismatch(p) ==
    PySeries(PyStr(<<"v">>), MakeIndex(p.idx, p.ni), MakeVector("int", p.nv))
MakeMismatchCall(p) ==
    MakeCall(MakeMismatch(p),
             Options(Given(OrientString(p.orient)), Omitted, OmittedInt, PyNULL, PyNULL,
                     PyNULL), p)

InitLabels ==
    /\ pc = "start"
    /\ \E p \in MismatchParams : input = MakeMismatchCall(p)
    /\ enc = InitialEncoder(DefaultOptions)
    /\ pyErr = ""
    /\ stack = <<>>
    /\ out = <<>>
    /\ npyarrs = <<>>
    /\ result = "none"
    /\ lastTc = [obj |-> PyNULL, type |-> "NONE", staged |-> FALSE, prv |-> "NULL",
                 longValue |-> 0, pending |-> "", live |-> {}]
    /\ handlerCalls = <<>>

NextLabels ==
    \/ objToJSON_call
    \/ Object_beginTypeContext
    \/ Object_getValue
    \/ Object_endTypeContext
    \/ NpyArr_iterBegin
    \/ NpyArr_iterNext
    \/ NpyArr_iterNextItem
    \/ NpyArr_iterGetName
    \/ NpyArr_iterEnd
    \/ objToJSON_return

SpecLabels == InitLabels /\ [][NextLabels]_vars

(***************************************************************************)
(* JSON text as the properties below state it, built from the value alone  *)
(***************************************************************************)
JsonNull == <<"n", "u", "l", "l">>
JsonTrue == <<"t", "r", "u", "e">>
JsonFalse == <<"f", "a", "l", "s", "e">>

RECURSIVE Join(_)
Join(parts) ==
    IF Len(parts) = 0 THEN <<>>
    ELSE IF Len(parts) = 1 THEN parts[1]
    ELSE parts[1] \o <<",">> \o Join(Tail(parts))
JsonArray(parts) == <<"[">> \o Join(parts) \o <<"]">>
JsonObject(keys, parts) ==
    <<"{">> \o Join([k \in 1..Len(parts) |-> <<"\"">> \o keys[k] \o <<"\"", ":">> \o parts[k]])
    \o <<"}">>

\* the text of a label used as a key
KeyText(label) == IF label.k = "int" THEN Buffer_AppendLong(label.n) ELSE label.s
NumLabels(idx) == Len(idx.values.buf)
KeysOf(idx) == [k \in 1..NumLabels(idx) |-> KeyText(IndexLabel(idx, k))]

\* the orientation the children of a table are encoded under
ChildOrientation(fmt) ==
    CASE fmt = "SPLIT" -> "VALUES"
      [] fmt = "RECORDS" -> "INDEX"
      [] OTHER -> fmt

RECURSIVE ExpectValue(_, _)
RECURSIVE ExpectTable(_, _)
ExpectDate(v) ==
    IF v = get_nat THEN JsonNull
    ELSE IF input.iso_dates THEN Buffer_Quote(make_iso_8601_datetime(input.date_unit, v))
    ELSE Buffer_AppendLong(npy_datetimestruct_to_datetime(input.date_unit, v))
ExpectValue(v, fmt) ==
    CASE v.k = "int" -> Buffer_AppendLong(v.n)
      [] v.k = "float" -> IF v.cls = "finite" THEN Buffer_AppendDouble(v.t) ELSE JsonNull
      [] v.k = "str" -> Buffer_Quote(v.s)
      [] v.k = "bool" -> IF v.b THEN JsonTrue ELSE JsonFalse
      [] v.k = "none" -> JsonNull
      [] v.k = "dt64" -> ExpectDate(v.v)
      [] v.k = "dataframe" -> ExpectTable(v, fmt)

ExpectLabels(idx) ==
    JsonArray([k \in 1..NumLabels(idx) |-> ExpectValue(IndexLabel(idx, k), "VALUES")])
ExpectElems(values, fmt) ==
    [k \in 1..PyArray_DIM(values, 0) |-> ExpectValue(values.buf[k], fmt)]
ExpectRow(df, i, fmt) ==
    [j \in 1..NumLabels(df.columns) |-> ExpectValue(Cell(df.values, i - 1, j - 1), fmt)]
ExpectColumn(df, j, fmt) ==
    [i \in 1..NumLabels(df.index) |-> ExpectValue(Cell(df.values, i - 1, j - 1), fmt)]
ExpectRows(df, fmt) ==
    JsonArray([i \in 1..NumLabels(df.index) |-> JsonArray(ExpectRow(df, i, fmt))])

ExpectTable(df, fmt) ==
    CASE fmt = "COLUMNS" ->
            JsonObject(KeysOf(df.columns),
                       [j \in 1..NumLabels(df.columns) |->
                           JsonObject(KeysOf(df.index), ExpectColumn(df, j, "COLUMNS"))])
      [] fmt = "INDEX" ->
            JsonObject(KeysOf(df.index),
                       [i \in 1..NumLabels(df.index) |->
                           JsonObject(KeysOf(df.columns), ExpectRow(df, i, "INDEX"))])
      [] fmt = "RECORDS" ->
            JsonArray([i \in 1..NumLabels(df.index) |->
                          JsonObject(KeysOf(df.columns), ExpectRow(df, i, "INDEX"))])
      [] fmt = "VALUES" -> ExpectRows(df, "VALUES")
      [] fmt = "SPLIT" ->
            JsonObject(<<Slice(Str_columns, 0, 7), Slice(Str_index, 0, 5), Slice(Str_data, 0, 4)>>,
                       <<ExpectLabels(df.columns), ExpectLabels(df.index),
                         ExpectRows(df, "VALUES")>>)

ExpectSeries(sr, fmt) ==
    CASE fmt = "SPLIT" ->
            JsonObject(<<Slice(Str_name, 0, 4), Slice(Str_index, 0, 5), Slice(Str_data, 0, 4)>>,
                       <<ExpectValue(sr.name, "VALUES"), ExpectLabels(sr.index),
                         JsonArray(ExpectElems(sr.values, "VALUES"))>>)
      [] fmt \in {"INDEX", "COLUMNS"} ->
            JsonObject(KeysOf(sr.index), ExpectElems(sr.values, fmt))
      [] OTHER -> JsonArray(ExpectElems(sr.values, fmt))

ExpectIndex(idx, fmt) ==
    IF fmt = "SPLIT"
    THEN JsonObject(<<Slice(Str_name, 0, 4), Slice(Str_data, 0, 4)>>,
                    <<ExpectValue(idx.name, "VALUES"), ExpectLabels(idx)>>)
    ELSE ExpectLabels(idx)

\* the call encodes a value of this kind under this orientation, and the
\* table driver's begin sets up its iteration state
RootIs(kind, fmt) ==
    input.obj.k = kind /\ input.orient = fmt /\ DataFrame_beginFault = "none"
Finished == pc = "done"
\* the table with columns [x,y], index [0,1], data [[1,2],[3,4]]
ExampleTable == MakeTable("int", "int", 2, 2)
\* the vector with name v, index [a,b], data [1.0, NaN]
ExampleVector == MakeSeries("text", "float", 2)

Text_C1 ==
    <<"{", "\"", "x", "\"", ":", "{", "\"", "0", "\"", ":", "1", ",", "\"", "1", "\"",
      ":", "3", "}", ",", "\"", "y", "\"", ":", "{", "\"", "0", "\"", ":", "2", ",",
      "\"", "1", "\"", ":", "4", "}", "}">>
Text_C2 ==
    <<"[", "{", "\"", "x", "\"", ":", "1", ",", "\"", "y", "\"", ":", "2", "}", ",",
      "{", "\"", "x", "\"", ":", "3", ",", "\"", "y", "\"", ":", "4", "}", "]">>
Text_C3 ==
    <<"{", "\"", "c", "o", "l", "u", "m", "n", "s", "\"", ":", "[", "\"", "x", "\"",
      ",", "\"", "y", "\"", "]", ",", "\"", "i", "n", "d", "e", "x", "\"", ":", "[",
      "0", ",", "1", "]", ",", "\"", "d", "a", "t", "a", "\"", ":", "[", "[", "1", ",",
      "2", "]", ",", "[", "3", ",", "4", "]", "]", "}">>
Text_C6 ==
    <<"{", "\"", "n", "a", "m", "e", "\"", ":", "\"", "v", "\"", ",", "\"", "i", "n",
      "d", "e", "x", "\"", ":", "[", "\"", "a", "\"", ",", "\"", "b", "\"", "]", ",",
      "\"", "d", "a", "t", "a", "\"", ":", "[", "1", ".", "0", ",", "n", "u", "l", "l",
      "]", "}">>

Text_C4 ==
    <<"{", "\"", "a", "\"", ":", "{", "\"", "x", "\"", ":", "1", ".", "0", ",", "\"",
      "y", "\"", ":", "2", ".", "0", "}", ",", "\"", "b", "\"", ":", "{", "\"", "x",
      "\"", ":", "3", ".", "0", ",", "\"", "y", "\"", ":", "n", "u", "l", "l", "}",
      "}">>
Text_C5 ==
    <<"[", "[", "\"", "p", "\"", ",", "t", "r", "u", "e", "]", ",", "[", "n", "u", "l",
      "l", ",", "4", "]", "]">>
Text_C7 ==
    <<"{", "\"", "a", "\"", ":", "1", ".", "0", ",", "\"", "b", "\"", ":", "n", "u",
      "l", "l", "}">>
Text_C8 ==
    <<"{", "\"", "n", "a", "m", "e", "\"", ":", "n", "u", "l", "l", ",", "\"", "d",
      "a", "t", "a", "\"", ":", "[", "\"", "a", "\"", ",", "\"", "b", "\"", "]", "}">>

TableParam(idx, fill, fmt) == Param("table", idx, fill, 2, 2, fmt, FALSE, "ms")
\* a child of the root has been handed to the dispatcher and tagged
ChildTagged(kind) ==
    Len(stack) = 2 /\ stack[2].obj.k = kind /\ stack[2].type # "NONE"

(***************************************************************************)
(* Properties                                                              *)
(***************************************************************************)
\* C1: with orientation Columns a table is emitted as an object with one key
\* per column, in column order, each holding an object with one key per
\* index label, in index order, whose value is the cell; the table with
\* columns [x,y], index [0,1], data [[1,2],[3,4]] gives
\* {"x":{"0":1,"1":3},"y":{"0":2,"1":4}}.
C1_ColumnsTable ==
    RootIs("dataframe", "COLUMNS") =>
        /\ pc # "crashed"
        /\ Finished => (result = "text" /\ out = ExpectTable(input.obj, "COLUMNS"))
        /\ (Finished /\ input.param = TableParam("int", "int", "COLUMNS")) => out = Text_C1
C1_Witness ==
    /\ Finished /\ result = "text"
    /\ input.param = TableParam("int", "int", "COLUMNS")
    /\ out = Text_C1

\* C2: with orientation Records a table is emitted as an array with one
\* element per row, in row order, each an object keyed by the column labels;
\* while the table iterates the orientation is Index, so every row vector is
\* dispatched under Index (never Records) and comes out as an object; the
\* example table gives [{"x":1,"y":2},{"x":3,"y":4}].
C2_RecordsTable ==
    RootIs("dataframe", "RECORDS") =>
        /\ pc # "crashed"
        /\ Len(stack) >= 2 => enc.outputFormat = "INDEX"
        /\ ChildTagged("series") => stack[2].type = "JT_OBJECT"
        /\ Finished => (result = "text" /\ out = ExpectTable(input.obj, "RECORDS"))
        /\ (Finished /\ input.param = TableParam("int", "int", "RECORDS")) => out = Text_C2
C2_Witness ==
    /\ Finished /\ result = "text"
    /\ input.param = TableParam("int", "int", "RECORDS")
    /\ out = Text_C2

\* C3: with orientation Split a table is emitted as an object with exactly
\* the keys columns, index, data in that order, all three values arrays,
\* the orientation being Values while the children are encoded; the example
\* table gives {"columns":["x","y"],"index":[0,1],"data":[[1,2],[3,4]]}.
C3_SplitTable ==
    RootIs("dataframe", "SPLIT") =>
        /\ pc # "crashed"
        /\ Len(stack) >= 2 => enc.outputFormat = "VALUES"
        /\ (Len(stack) = 2 /\ stack[2].type # "NONE") => stack[2].type = "JT_ARRAY"
        /\ Finished => (result = "text" /\ out = ExpectTable(input.obj, "SPLIT"))
        /\ (Finished /\ input.param = TableParam("int", "int", "SPLIT")) => out = Text_C3

\* C4: with orientation Index a table is emitted as an object with one key
\* per row, in row order, the k-th key the k-th index label, each holding an
\* object keyed by the column labels, in column order, with the row's cells.
C4_IndexTable ==
    RootIs("dataframe", "INDEX") =>
        /\ pc # "crashed"
        /\ Finished => (result = "text" /\ out = ExpectTable(input.obj, "INDEX"))
        /\ (Finished /\ input.param = TableParam("text", "float", "INDEX")) => out = Text_C4
C4_Witness ==
    /\ Finished /\ result = "text"
    /\ input.param = TableParam("text", "float", "INDEX")
    /\ out = Text_C4

\* C5: with orientation Values a table is emitted as an array of rows, in
\* row order, every row an array of its cells in column order, with no
\* label anywhere; the orientation is Values during the whole iteration.
C5_ValuesTable ==
    RootIs("dataframe", "VALUES") =>
        /\ pc # "crashed"
        /\ pc \in {"encode", "encoded", "done"} => enc.outputFormat = "VALUES"
        /\ ChildTagged("series") => stack[2].type = "JT_ARRAY"
        /\ Finished => (result = "text" /\ out = ExpectTable(input.obj, "VALUES"))
        /\ (Finished /\ input.param = TableParam("int", "object", "VALUES")) => out = Text_C5
C5_Witness ==
    /\ Finished /\ result = "text"
    /\ input.param = TableParam("int", "object", "VALUES")
    /\ out = Text_C5

\* C6: with orientation Split a labeled vector is emitted as an object with
\* exactly the keys name, index, data in that order, the index as an array
\* of labels and the data as an array of values, the orientation being
\* Values while the children are encoded; name v, index [a,b], data
\* [1.0, NaN] gives {"name":"v","index":["a","b"],"data":[1.0,null]}.
C6_SplitVector ==
    RootIs("series", "SPLIT") =>
        /\ pc # "crashed"
        /\ Len(stack) >= 2 => enc.outputFormat = "VALUES"
        /\ ChildTagged("index") => stack[2].type = "JT_ARRAY"
        /\ ChildTagged("ndarray") => stack[2].type = "JT_ARRAY"
        /\ Finished => (result = "text" /\ out = ExpectSeries(input.obj, "SPLIT"))
        /\ (Finished /\ input.param = Param("series", "text", "float", 2, 1, "SPLIT", FALSE, "ms"))
              => out = Text_C6
C6_Witness ==
    /\ Finished /\ result = "text"
    /\ input.param = Param("series", "text", "float", 2, 1, "SPLIT", FALSE, "ms")
    /\ out = Text_C6

\* C7: a labeled vector dispatched under a non-Split orientation is, under
\* Index or Columns, an object with exactly len(data) keys, the k-th key the
\* pre-encoded k-th index label and its value the k-th data element; under
\* Records or Values it is an array of its data elements with no keys.
C7_PlainVector ==
    (input.obj.k = "series" /\ input.orient # "SPLIT") =>
        /\ pc # "crashed"
        /\ (stack # <<>> /\ stack[1].type # "NONE") =>
              /\ stack[1].type = IF input.orient \in {"INDEX", "COLUMNS"}
                                 THEN "JT_OBJECT" ELSE "JT_ARRAY"
              /\ stack[1].type = "JT_OBJECT" =>
                    /\ stack[1].tctx.columnLabelsLen = Len(input.obj.values.buf)
                    /\ stack[1].tctx.columnLabels.arr =
                          [k \in 1..Len(input.obj.values.buf) |->
                              Buffer_Quote(KeysOf(input.obj.index)[k]) \o <<":", NUL>>]
        /\ Finished => (result = "text" /\ out = ExpectSeries(input.obj, input.orient))
C7_Witness ==
    /\ Finished /\ result = "text"
    /\ input.param = Param("series", "text", "float", 2, 1, "INDEX", FALSE, "ms")
    /\ out = Text_C7

\* C8: a labeled-index object dispatched under Split is emitted as an object
\* with exactly the keys name then data; under any other orientation it is
\* emitted as a plain array of its underlying values.
C8_IndexObject ==
    input.obj.k = "index" =>
        /\ pc # "crashed"
        /\ (stack # <<>> /\ stack[1].type # "NONE") =>
              stack[1].type = IF input.orient = "SPLIT" THEN "JT_OBJECT" ELSE "JT_ARRAY"
        /\ Finished => (result = "text" /\ out = ExpectIndex(input.obj, input.orient))
C8_Witness ==
    /\ Finished /\ result = "text"
    /\ input.param = Param("index", "text", "labels", 2, 1, "SPLIT", FALSE, "ms")
    /\ out = Text_C8

IsNotATime(v) ==
    \/ v.k = "datetime" /\ v.nat
    \/ v.k = "dt64" /\ v.v = get_nat
    \/ v.k = "timedelta" /\ v.v = get_nat

\* C10: any not-a-time value is tagged JSON null under both date modes and
\* under every date unit, on every path that can carry it (date/time object,
\* datetime64 scalar, staged datetime array element, duration).
C10_NotATimeIsNull ==
    (lastTc.type # "NONE" /\ IsNotATime(lastTc.obj)) => lastTc.type = "JT_NULL"

\* the three paths of C10 on which the sentinel is recognised before any
\* arithmetic
C10_NotATimeDatesAreNull ==
    (lastTc.type # "NONE" /\ IsNotATime(lastTc.obj) /\ lastTc.obj.k # "timedelta")
        => lastTc.type = "JT_NULL"

(***************************************************************************)
(* The strider over a k-dimensional buffer                                 *)
(***************************************************************************)
\* the data pointers of the elements of an array in row-major index order
RowMajorOffsets(a) ==
    [r \in 1..Product(a.dims) |->
        PyArray_DATA(a) + Dot(a.strides, RowMajorIndex(a.dims, r - 1))]
\* the nested-array text of the sub-array at data pointer base, from axis on
RECURSIVE ExpectAxis(_, _, _)
ExpectAxis(a, axis, base) ==
    IF axis > Len(a.dims) THEN ExpectValue(PyArray_GETITEM(a, base), "VALUES")
    ELSE JsonArray([i \in 1..a.dims[axis] |->
                       ExpectAxis(a, axis + 1, base + (i - 1) * a.strides[axis])])
IsPrefix(s, t) == Len(s) <= Len(t) /\ s = SubSeq(t, 1, Len(s))

\* C11: a complete traversal of a k-dimensional numeric buffer (any axis
\* size, zero included, any strides) by the strider hands out exactly
\* n_1 * ... * n_k leaf scalars, every element exactly once, in row-major
\* index order; the output is the nested array of those scalars.
C11_StriderEmitsAll ==
    (input.param.root = "ndarray" /\ input.param.fill \in {"int", "datetime"}) =>
        /\ pc # "crashed"
        /\ npyarrs # <<>> => IsPrefix(npyarrs[1].emitted, RowMajorOffsets(input.obj))
        /\ Finished =>
              /\ result = "text"
              /\ Len(npyarrs) = 1
              /\ Len(npyarrs[1].emitted) = Product(input.obj.dims)
              /\ npyarrs[1].emitted = RowMajorOffsets(input.obj)
              /\ out = ExpectAxis(input.obj, 1, PyArray_DATA(input.obj))
C11_Witness ==
    /\ Finished /\ result = "text"
    /\ input.param.root = "ndarray" /\ input.param.layout = "rev"
    /\ input.obj.dims = <<2, 2, 2>>
    /\ Len(npyarrs[1].emitted) = 8
    /\ out = <<"[", "[", "[", "1", ",", "2", "]", ",", "[", "3", ",", "4", "]", "]", ",",
               "[", "[", "5", ",", "6", "]", ",", "[", "7", ",", "8", "]", "]", "]">>

(***************************************************************************)
(* Shape / label agreement of the table driver                             *)
(***************************************************************************)
\* the activation is a table begun under Index or Columns
IsLabelledTable(f) ==
    /\ f.obj.k = "dataframe" /\ f.tctx.iterBegin = "DataFrame_iterBegin"
    /\ f.fmt \in {"INDEX", "COLUMNS"}
    /\ ~f.tctx.frame.isNull
\* the number of labels of the axis a table is keyed by
AxisLength(df, fmt) ==
    IF fmt = "COLUMNS" THEN PyArray_DIM(df.values, 1) ELSE PyArray_DIM(df.values, 0)

\* C12: for any table begun under Columns or Index, the pre-encoded labels
\* are as many as the columns (the value slots per row) under Columns and as
\* the rows under Index, the label index get-name uses lies in
\* [0, label count), and the keys emitted when the iteration ends are as
\* many as the labels.
C12_ShapeLabelAgreement ==
    \A i \in 1..Len(stack) :
        IsLabelledTable(stack[i]) =>
            /\ pc # "crashed"
            /\ ~stack[i].tctx.columnLabels.isNull
            /\ stack[i].tctx.columnLabelsLen = Len(stack[i].tctx.columnLabels.arr)
            /\ stack[i].tctx.columnLabelsLen = AxisLength(stack[i].obj, stack[i].fmt)
            /\ stack[i].pos = "iterGetName" =>
                  /\ stack[i].tctx.index - 1 >= 0
                  /\ stack[i].tctx.index - 1 < stack[i].tctx.columnLabelsLen
            /\ stack[i].pos \in {"iterEnd", "endTypeContext"} =>
                  stack[i].count = stack[i].tctx.columnLabelsLen
C12_Witness ==
    /\ pc = "encode" /\ Len(stack) = 1
    /\ IsLabelledTable(stack[1]) /\ stack[1].fmt = "COLUMNS"
    /\ PyArray_DIM(stack[1].obj.values, 0) = 1 /\ PyArray_DIM(stack[1].obj.values, 1) = 2
    /\ stack[1].pos = "iterEnd" /\ stack[1].count = 2
    /\ stack[1].tctx.columnLabelsLen = 2

(***************************************************************************)
(* The top-level call: errors and options                                  *)
(***************************************************************************)
\* C13: a failed top-level call returns an error and no text: when, after
\* the writer has returned, an ambient error is pending or the encoder's
\* error slot is set, the call returns the error, never the (partial) text
\* of the buffer; a text is returned only when neither is set.
C13_NoPartialOutput ==
    Finished =>
        /\ result \in {"error", "text"}
        /\ result = "error" <=> pyErr # ""
        /\ enc.errorMsg => result = "error"
        /\ result = "text" => (pyErr = "" /\ ~enc.errorMsg)
\* the writer's error slot was set after part of the text had been written,
\* and the call returned the error
C13_Witness ==
    /\ Finished /\ result = "error"
    /\ enc.errorMsg /\ out # <<>>
    /\ input.obj.k = "list"

\* an option value the call must reject
BadOptions(opt) ==
    \/ opt.idoublePrecision.n < 0
    \/ opt.idoublePrecision.n > JSON_DOUBLE_MAX_DECIMALS
    \/ opt.sOrient.given
        /\ opt.sOrient.s \notin {"records", "index", "split", "values", "columns"}
    \/ opt.sdateFormat.given /\ opt.sdateFormat.s \notin {"s", "ms", "us", "ns"}
    \/ opt.odefHandler.k \notin {"NULL", "none", "callable"}
\* the writer has not been invoked on the root value
WriterNotInvoked == stack = <<>> /\ out = <<>> /\ lastTc.type = "NONE" /\ npyarrs = <<>>

\* C14: option errors reject before any output: a double_precision below 0
\* or above the maximum, an orient outside {records, index, split, values,
\* columns}, a date_unit outside {s, ms, us, ns} or a default_handler that
\* is given, not null and not callable make the call return an error
\* without the writer ever being invoked on the root value; with every option
\* omitted the encoder starts with orientation Columns, date unit
\* milliseconds, epoch mode, force-ASCII on and no handler.
C14_OptionErrors ==
    /\ BadOptions(input.opt) =>
          /\ pc \in {"start", "done"}
          /\ WriterNotInvoked
          /\ Finished => (result = "error" /\ pyErr # "")
    /\ (input.opt = DefaultOptions /\ pc = "encode") =>
          /\ enc.originalOutputFormat = "COLUMNS"
          /\ Len(stack) = 1 => enc.outputFormat = "COLUMNS"
          /\ enc.datetimeUnit = "ms" /\ ~enc.datetimeIso
          /\ enc.forceASCII = 1 /\ enc.defaultHandler.k = "NULL"
C14_Witness ==
    /\ Finished /\ result = "error" /\ WriterNotInvoked
    /\ input.opt.idoublePrecision = GivenInt(-1)
    /\ input.opt.sOrient = Omitted /\ input.opt.sdateFormat = Omitted
    /\ input.opt.odefHandler = PyNULL

(***************************************************************************)
(* C15: integers and the signed 64-bit range                               *)
(***************************************************************************)
\* the value handed to the call is, or directly holds, an integer outside
\* the signed 64-bit range
HoldsOverflow(obj) ==
    \/ obj = PyBigInt
    \/ obj.k = "list" /\ \E i \in 1..Len(obj.items) : obj.items[i] = PyBigInt

\* C15: an integer within the signed 64-bit range (dispatched in a traversal
\* that has not already failed with an overflow) is tagged long and its
\* staged value is the integer; an integer outside the range is tagged
\* invalid with its context freed, and a call whose value holds such an
\* integer returns an error.
C15_IntegerRange ==
    /\ (lastTc.obj.k = "int" /\ ~lastTc.staged /\ ~lastTc.obj.big
            /\ lastTc.pending # "OverflowError")
        => (lastTc.type = "JT_LONG" /\ lastTc.longValue = lastTc.obj.n)
    /\ (lastTc.obj.k = "int" /\ ~lastTc.staged /\ lastTc.obj.big)
        => (lastTc.type = "JT_INVALID" /\ lastTc.prv = "NULL")
    /\ (pc = "done" /\ HoldsOverflow(input.obj)) => result = "error"

(***************************************************************************)
(* C16: the orientation is restored on scope exit                          *)
(***************************************************************************)
\* an activation whose table driver has been begun
IsBegunTable(f) == f.tctx.iterBegin = "DataFrame_iterBegin" /\ f.fmt # "NONE"

\* C16: for every table, nested ones included, once the table driver's end
\* has returned the encoder's orientation is the one in force when that
\* table's begin was entered, and whenever the table's next, get-name or
\* end is about to run its mode (Split keys or iterated pairs) is the one
\* chosen at its own begin.
C16_OrientationRestored ==
    (pc = "encode" /\ stack # <<>> /\ IsBegunTable(TOP)) =>
        /\ TOP.pos = "endTypeContext" => enc.outputFormat = TOP.fmt
        /\ TOP.pos \in {"iterNext", "iterGetName", "iterEnd"}
            => ((enc.originalOutputFormat = "SPLIT") <=> (TOP.fmt = "SPLIT"))

(***************************************************************************)
(* C17: values no dispatch branch matches                                  *)
(***************************************************************************)
\* the fallback values a call's value is or directly holds, in order
FallbackValues(obj) ==
    IF obj.k = "object" THEN <<obj>>
    ELSE IF obj.k = "list" THEN SelectSeq(obj.items, LAMBDA v : v.k = "object")
    ELSE <<>>

\* the handler raises or returns null for one of the values
HandlerFails(handler, values) ==
    \E i \in 1..Len(values) :
        \/ PyObject_CallFunctionObjArgs(handler, values[i]).err # ""
        \/ PyObject_CallFunctionObjArgs(handler, values[i]).tmpObj.k = "NULL"

\* the text of a value with every fallback value replaced by the encoding
\* of what the handler returns for it
RECURSIVE ExpectHandled(_, _)
ExpectHandled(v, handler) ==
    CASE v.k = "object" ->
            ExpectHandled(PyObject_CallFunctionObjArgs(handler, v).tmpObj, handler)
      [] v.k = "list" ->
            JsonArray([i \in 1..Len(v.items) |-> ExpectHandled(v.items[i], handler)])
      [] OTHER -> ExpectValue(v, "COLUMNS")

\* C17: for a value that matches no dispatch branch and has no toDict: with
\* a default handler set the handler is called exactly once with the value,
\* its result is encoded in place of the value and the context is marked
\* invalid and freed; without a handler the value is an object over the
\* Attribute-Dir driver; a handler that raises or returns null makes the
\* call fail.
C17_Fallback ==
    (input.param.root = "fallback") =>
        IF input.opt.odefHandler.k = "NULL"
        THEN /\ lastTc.obj.k = "object" => lastTc.type = "JT_OBJECT"
             /\ \A i \in 1..Len(stack) :
                    (stack[i].obj.k = "object" /\ stack[i].pos # "begin")
                    => (stack[i].type = "JT_OBJECT"
                        /\ stack[i].tctx.iterBegin = "Dir_iterBegin")
             /\ handlerCalls = <<>>
        ELSE /\ lastTc.obj.k = "object"
                => (lastTc.type = "JT_INVALID" /\ lastTc.prv = "NULL")
             /\ \A i \in 1..Len(stack) :
                    (i = Len(stack) /\ stack[i].pos = "handled")
                    => /\ stack[i].arg = stack[i].obj
                       /\ SubSeq(out, stack[i].mark + 1, Len(out))
                              = ExpectHandled(stack[i].obj, input.opt.odefHandler)
             /\ (pc = "done"
                    /\ HandlerFails(input.opt.odefHandler, FallbackValues(input.obj)))
                => result = "error"
             /\ (pc = "done" /\ ~HoldsOverflow(input.obj)
                    /\ ~HandlerFails(input.opt.odefHandler, FallbackValues(input.obj)))
                => /\ result = "text"
                   /\ handlerCalls = FallbackValues(input.obj)
                   /\ out = ExpectHandled(input.obj, input.opt.odefHandler)

(***************************************************************************)
(* C18: a staged primitive of a dtype the classifier has no case for       *)
(***************************************************************************)
\* C18: when the labels of a container are staged with a dtype the
\* classifier does not handle, then with a default handler set the element
\* is fetched through the strider of the passthrough slot, which is there
\* to be read, and handed to the handler, and without a handler the
\* dispatcher fails with the unhandled-dtype error; the tag is invalid
\* either way.
C18_StagedUnhandled ==
    (input.param.root = "labelled") =>
        /\ pc # "crashed"
        /\ lastTc.obj.k \in {"series", "dataframe"} =>
              /\ lastTc.type = "JT_INVALID"
              /\ IF input.opt.odefHandler.k = "NULL"
                 THEN pyErr = "RuntimeError: Unhandled numpy dtype"
                 ELSE handlerCalls # <<>> /\ handlerCalls[1] = PyComplex(1)

(***************************************************************************)
(* C19: the size test of the label pre-encoder                             *)
(***************************************************************************)
LabelSizeError == "ValueError: Label array sizes do not match corresponding data shape"

\* C19: the label pre-encoder fails with the size error exactly when the
\* label array holds fewer entries than the expected count; it then builds
\* and returns no labels and the dispatcher marks the value invalid; else
\* it does not raise the error and returns exactly the expected count of
\* labels.
C19_LabelSizes ==
    (input.param.root = "mismatch") =>
        LET labels == get_values(input.obj.index)
            num == PyArray_DIM(get_values(input.obj), 0)
            r == NpyArr_encodeLabels(labels, InitialEncoder(input.opt), num, "")
        IN /\ (r.err = LabelSizeError) <=> (input.param.ni < input.param.nv)
           /\ IF input.param.ni < input.param.nv
              THEN /\ r.ret.isNull /\ r.ret.arr = <<>>
                   /\ lastTc.obj.k = "series"
                      => (lastTc.type = "JT_INVALID" /\ lastTc.prv = "NULL"
                          /\ pyErr = LabelSizeError)
                   /\ Finished => (result = "error" /\ out = <<>>)
              ELSE /\ ~r.ret.isNull /\ Len(r.ret.arr) = num
                   /\ pyErr # LabelSizeError
                   /\ (stack # <<>> /\ stack[1].type # "NONE")
                      => (stack[1].type = "JT_OBJECT"
                          /\ stack[1].tctx.columnLabels = r.ret
                          /\ stack[1].tctx.columnLabelsLen = num)
                   /\ Finished => result = "text"

\* a vector with one label for two values has been rejected
C19_Witness ==
    /\ input.param.root = "mismatch"
    /\ input.param.ni = 1 /\ input.param.nv = 2
    /\ Finished /\ result = "error" /\ pyErr = LabelSizeError

(***************************************************************************)
(* C20: zero-dimensional arrays                                            *)
(***************************************************************************)
ZeroDimError == "TypeError: 0d array is not JSON serializable at the moment"

\* C20: a zero-dimensional array is never iterated: the dispatcher rejects
\* it with the type error, marks the context invalid and frees it, and the
\* call fails; every array of one or more dimensions is given the callbacks
\* of the numeric-array driver.
C20_ZeroDimArray ==
    /\ (lastTc.obj.k = "ndarray" /\ ~lastTc.staged /\ PyArray_NDIM(lastTc.obj) = 0)
        => (lastTc.type = "JT_INVALID" /\ lastTc.prv = "NULL" /\ pyErr = ZeroDimError)
    /\ (lastTc.obj.k = "ndarray" /\ ~lastTc.staged /\ PyArray_NDIM(lastTc.obj) >= 1)
        => lastTc.type \in {"JT_ARRAY", "JT_OBJECT"}
    /\ \A i \in 1..Len(stack) :
          (stack[i].obj.k = "ndarray" /\ stack[i].type # "NONE" /\ stack[i].prv = "own")
          => /\ PyArray_NDIM(stack[i].obj) >= 1
             /\ stack[i].tctx.iterBegin \in {"NpyArr_iterBegin", "NpyArrPassThru_iterBegin"}
             /\ stack[i].tctx.iterNext \in {"NpyArr_iterNext", "NpyArr_iterNextItem"}
             /\ stack[i].tctx.iterEnd \in {"NpyArr_iterEnd", "NpyArrPassThru_iterEnd"}
    /\ (Finished /\ input.obj.k = "ndarray" /\ PyArray_NDIM(input.obj) = 0)
        => (result = "error" /\ out = <<>> /\ npyarrs = <<>>)

\* a call on a zero-dimensional array has failed with the type error
C20_Witness ==
    /\ input.obj.k = "ndarray" /\ PyArray_NDIM(input.obj) = 0
    /\ Finished /\ result = "error" /\ pyErr = ZeroDimError
    /\ lastTc.obj = input.obj /\ lastTc.type = "JT_INVALID"

(***************************************************************************)
(* C21: the mapping driver                                                 *)
(***************************************************************************)
Text_C21_ab ==
    <<"{", "\"", "a", "\"", ":", "1", ",", "\"", "b", "\"", ":", "n", "u", "l", "l", "}">>
Text_C21_mixed ==
    <<"{", "\"", "k", "\"", ":", "1", ",", "\"", "2", "\"", ":", "\"", "s", "\"", ",",
      "\"", "N", "o", "n", "e", "\"", ":", "t", "r", "u", "e", ",",
      "\"", "n", "\"", ":", "[", "1", "]", "}">>
Text_C21_nested ==
    <<"{", "\"", "o", "\"", ":", "{", "\"", "-", "3", "\"", ":", "1", ".", "5", "}", ",",
      "\"", "z", "\"", ":", "0", "}">>
Text_C21_same ==
    <<"{", "\"", "1", "\"", ":", "1", ",", "\"", "1", "\"", ":", "2", "}">>

Text_C21_sets ==
    <<"{", "\"", "e", "\"", ":", "[", "]", ",",
      "\"", "f", "\"", ":", "[", "n", "u", "l", "l", "]", "}">>

\* the bytes a key is expected to be emitted as
ExpectKeyBytes(key) ==
    CASE key.k \in {"str", "bytes"} -> key.s
      [] key.k = "int" -> Buffer_AppendLong(key.n)
      [] key.k = "none" -> <<"N", "o", "n", "e">>

\* C21: the mapping driver exposes every (key, value) pair of the mapping
\* exactly once in enumeration order, every exposed key is a byte string
\* (text as its UTF-8 bytes, bytes unchanged, any other key as the bytes of
\* its string form), and {"a":1,"b":null} encodes as {"a":1,"b":null}.
C21_MappingDriver ==
    /\ \A i \in 1..Len(stack) :
          (stack[i].tctx.iterBegin = "Dict_iterBegin"
              /\ stack[i].pos \in {"iterGetName", "child"})
          => LET tc == stack[i].tctx
                 item == stack[i].obj.items[stack[i].count + 1]
             IN /\ tc.index = stack[i].count + 1
                /\ PyBytes_Check(tc.itemName)
                /\ tc.itemName.s = ExpectKeyBytes(item.key)
                /\ tc.itemValue = item.value
    /\ \A i \in 1..Len(stack) :
          (stack[i].tctx.iterBegin = "Dict_iterBegin"
              /\ stack[i].pos \in {"iterEnd", "endTypeContext"})
          => stack[i].count = Len(stack[i].obj.items)
    /\ (Finished /\ input.param.root = "dict") =>
          /\ result = "text"
          /\ out = CASE input.param.fill = "ab" -> Text_C21_ab
                      [] input.param.fill = "mixed" -> Text_C21_mixed
                      [] input.param.fill = "empty" -> <<"{", "}">>
                      [] input.param.fill = "nested" -> Text_C21_nested
                      [] input.param.fill = "same" -> Text_C21_same
                      [] input.param.fill = "set" ->
                            <<"[", "3", ",", "\"", "s", "\"", ",", "1", "]">>
                      [] input.param.fill = "sets" -> Text_C21_sets

\* the mapping with a bytes, an integer, a None and a text key has been
\* encoded
C21_Witness ==
    /\ input.param.root = "dict" /\ input.param.fill = "mixed"
    /\ Finished /\ out = Text_C21_mixed

(***************************************************************************)
(* C22 - C24: the strider between its callbacks                            *)
(***************************************************************************)
RECURSIVE SumTo(_, _)
\* f[0] + ... + f[n]
SumTo(f, n) == IF n < 0 THEN 0 ELSE f[n] + SumTo(f, n - 1)
\* the axes the strider has descended through to reach its stride axis
OuterAxes(npyarr) ==
    IF npyarr.inc = 1 THEN 0..(npyarr.stridedim - 1)
    ELSE (npyarr.stridedim + 1)..npyarr.ndim
LiveStriders == {id \in 1..Len(npyarrs) : npyarrs[id].live}

\* C22 as the specification states it: between strider callbacks the data
\* pointer is base + the sum over all axes i of stride_i * index_i.
C22_PointerAllAxes ==
    \A id \in LiveStriders :
        LET s == npyarrs[id] IN
        s.dataptr = PyArray_DATA(s.array)
                    + SumTo([i \in 0..s.ndim |-> PyArray_STRIDE(s.array, i) * s.index[i]],
                            s.ndim)

\* C22 (amended): between strider callbacks the data pointer is base
\* + stride * index of the current stride axis + the sum, over the axes
\* descended through, of stride_i * (index_i - 1); a descent counts the
\* outer index at once and the pointer follows when the inner level is
\* popped, and the entries of deeper axes are left over from earlier rows.
C22_PointerOnPath ==
    \A id \in LiveStriders :
        LET s == npyarrs[id] IN
        s.dataptr = PyArray_DATA(s.array)
                    + s.stride * s.index[s.stridedim]
                    + SumTo([i \in 0..s.ndim |->
                                IF i \in OuterAxes(s)
                                THEN PyArray_STRIDE(s.array, i) * (s.index[i] - 1)
                                ELSE 0], s.ndim)
\* a strider in the leaf phase of the second row of the second plane, one
\* element handed out: the all-axes sum is off
C22_Witness ==
    \E id \in LiveStriders :
        /\ npyarrs[id].curdim = 2 /\ npyarrs[id].inc = 1
        /\ npyarrs[id].index = [i \in 0..3 |-> IF i = 3 THEN 0 ELSE IF i = 2 THEN 1 ELSE 2]
        /\ ~C22_PointerAllAxes

\* C23 as the specification states it: between strider callbacks
\* 0 <= index[stride_axis] < size of that axis, and the stride axis and the
\* depth are within [0, ndim - 1].
C23_IndexBelowSize ==
    \A id \in LiveStriders :
        LET s == npyarrs[id] IN
        /\ 0 <= s.index[s.stridedim] /\ s.index[s.stridedim] < s.dim
        /\ s.stridedim \in 0..(PyArray_NDIM(s.array) - 1)
        /\ s.curdim \in 0..(PyArray_NDIM(s.array) - 1)

\* C23 (amended): between strider callbacks 0 <= index[stride_axis] <= size
\* of that axis (equal once the axis is exhausted, and at once on an axis
\* of size 0), size being that of the stride axis, and the stride axis and
\* the depth are within [0, ndim - 1].
C23_IndexWithinSize ==
    \A id \in LiveStriders :
        LET s == npyarrs[id] IN
        /\ s.stridedim \in 0..(PyArray_NDIM(s.array) - 1)
        /\ s.curdim \in 0..(PyArray_NDIM(s.array) - 1)
        /\ s.dim = PyArray_DIM(s.array, s.stridedim)
        /\ 0 <= s.index[s.stridedim] /\ s.index[s.stridedim] <= s.dim
\* a leaf axis of size 2 has been exhausted: its index equals its size
C23_Witness ==
    \E id \in LiveStriders :
        /\ npyarrs[id].curdim = 1 /\ npyarrs[id].dim = 2
        /\ npyarrs[id].index[npyarrs[id].stridedim] = 2
        /\ Len(npyarrs[id].emitted) = 2

\* the activation on top has just run NpyArrPassThru_iterEnd
JustPopped ==
    /\ pc = "encode" /\ stack # <<>>
    /\ TOP.tctx.iterEnd = "NpyArrPassThru_iterEnd" /\ TOP.pos = "endTypeContext"

\* C24: after a child that reuses a strider through the passthrough has run
\* begin, next until false, and end, the strider is popped exactly one
\* level: depth and stride axis are what they were before the descent, size
\* and stride are those of the outer axis, and the data pointer stands one
\* outer-axis stride past where it stood before the descent, inner axes of
\* size 0 included.
C24_PoppedOneLevel ==
    JustPopped =>
        LET s == npyarrs[TOP.tctx.npyarr]
            before == s.popped
        IN /\ before # NoLevel
           /\ s.curdim = before.curdim /\ s.stridedim = before.stridedim
           /\ s.dim = PyArray_DIM(s.array, before.stridedim) /\ s.dim = before.dim
           /\ s.stride = PyArray_STRIDE(s.array, before.stridedim)
           /\ s.stride = before.stride
           /\ s.dataptr = before.dataptr + before.stride
\* a row of two elements has been walked and popped
C24_Witness ==
    /\ JustPopped
    /\ npyarrs[TOP.tctx.npyarr].index[npyarrs[TOP.tctx.npyarr].stridedim
                                       + npyarrs[TOP.tctx.npyarr].inc] = 2
    /\ npyarrs[TOP.tctx.npyarr].popped.curdim = 0
    /\ npyarrs[TOP.tctx.npyarr].dataptr # npyarrs[TOP.tctx.npyarr].popped.dataptr
\* an inner axis of size 0 has been popped
C24_WitnessEmpty ==
    /\ JustPopped
    /\ PyArray_DIM(npyarrs[TOP.tctx.npyarr].array,
                   npyarrs[TOP.tctx.npyarr].stridedim + npyarrs[TOP.tctx.npyarr].inc) = 0

(***************************************************************************)
(* C25 - C26: the passthrough slot and the staging slot                    *)
(***************************************************************************)
\* the strider activation f has just exposed an item with strider id in the
\* slot and the writer is about to ask for the item's name
InstalledAwaitingName(f, id) ==
    /\ f.tctx.npyarr = id /\ f.pos = "iterGetName"
    /\ f.tctx.iterNext \in {"NpyArr_iterNext", "NpyArr_iterNextItem"}
\* the activation on top is the child the strider activation below it has
\* just exposed, and its dispatch has not run yet
InstalledAwaitingDispatch(id) ==
    /\ Len(stack) >= 2 /\ TOP.pos = "begin"
    /\ stack[Len(stack) - 1].pos = "child"
    /\ stack[Len(stack) - 1].tctx.npyarr = id
    /\ stack[Len(stack) - 1].tctx.iterNext \in {"NpyArr_iterNext", "NpyArr_iterNextItem"}
    /\ TOP.obj = stack[Len(stack) - 1].tctx.itemValue

\* C25: the passthrough slot is a one-shot handoff: it is non-empty only
\* from the strider's next that installed the strider up to the dispatcher
\* call on the child that next exposed, which consumes it and leaves it
\* empty; no other dispatcher call sees it non-empty, and it is empty when
\* the top-level call returns.
C25_PassthruOneShot ==
    /\ (pc = "encode" /\ enc.npyCtxtPassthru # 0) =>
          /\ npyarrs[enc.npyCtxtPassthru].live
          /\ \/ InstalledAwaitingName(TOP, enc.npyCtxtPassthru)
             \/ InstalledAwaitingDispatch(enc.npyCtxtPassthru)
    /\ pc \in {"encoded", "done"} => enc.npyCtxtPassthru = 0

\* a staged dtype is pending only between the leaf-phase next that staged
\* it and the dispatcher call on the placeholder that next exposed
StagingAwaitsItsDispatch ==
    /\ (pc = "encode" /\ enc.npyType >= 0) =>
          /\ enc.npyCtxtPassthru # 0
          /\ \/ InstalledAwaitingName(TOP, enc.npyCtxtPassthru)
             \/ InstalledAwaitingDispatch(enc.npyCtxtPassthru)
    /\ pc \in {"encoded", "done"} => enc.npyType = -1
\* the last dispatcher call, entered with a staged datetime, classified the
\* raw element and not the placeholder it was given
StagedClassifiedByDtype ==
    lastTc.staged =>
        /\ lastTc.prv = "basic"
        /\ lastTc.obj.k = "dt64"
        /\ lastTc.type = IF lastTc.obj.v = get_nat THEN "JT_NULL"
                          ELSE IF enc.datetimeIso THEN "JT_UTF8" ELSE "JT_LONG"
        /\ lastTc.type # "JT_NULL" => lastTc.longValue = lastTc.obj.v
\* the dispatcher call on top was entered with a label staged by the label
\* pre-encoder and did not return
StagedDispatchCrashed ==
    pc = "crashed" /\ stack # <<>> /\ TOP.pos = "begin"

\* C26: the staging slot is consumed by exactly one dispatcher call: a call
\* entered with a staged dtype classifies by the staged dtype and the raw
\* pointer alone and returns with the staged dtype reset to -1 on every
\* outcome (classified, routed to the default handler, failed as
\* unhandled); no dispatcher call returns with a staged dtype pending.
C26_StagingConsumed ==
    /\ StagingAwaitsItsDispatch
    /\ StagedClassifiedByDtype
    /\ ~StagedDispatchCrashed

(***************************************************************************)
(* C27: the handlers a shape tag requires                                  *)
(***************************************************************************)
\* the type context the writer's callbacks of activation f work on
ContextOf(f) == IF f.prv = "basic" THEN enc.basicTypeContext ELSE f.tctx
IsContainerTag(type) == type \in {"JT_ARRAY", "JT_OBJECT"}
HasIterators(tc) ==
    /\ tc.iterBegin # "UNINIT" /\ tc.iterNext # "UNINIT" /\ tc.iterEnd # "UNINIT"
    /\ tc.iterGetValue # "UNINIT" /\ tc.iterGetName # "UNINIT"

\* C27: for every value the dispatcher accepts, the handlers the published
\* tag requires are set before it returns: long, double and UTF-8 come with
\* a coercer, array and object with all five iterator callbacks; the writer
\* never calls a coercer or a callback that was left unset.
C27_HandlersSet ==
    \A i \in 1..Len(stack) :
        LET f == stack[i] IN
        /\ (IsPrimitiveTag(f.type) /\ f.pos = "getValue")
              => ContextOf(f).PyTypeToJSON # "UNINIT"
        /\ IsContainerTag(f.type) => (f.prv = "own" /\ HasIterators(f.tctx))
        /\ f.pos = "getValue" => IsPrimitiveTag(f.type)
        /\ f.pos \in {"iterBegin", "iterNext", "iterGetName", "child", "iterEnd"}
              => IsContainerTag(f.type)
\* the writer is about to call the coercer of a staged datetime, set in the
\* encoder's own type context, under a strider whose callbacks are set
C27_Witness ==
    /\ At("getValue") /\ TOP.prv = "basic" /\ TOP.type = "JT_UTF8"
    /\ enc.basicTypeContext.PyTypeToJSON = "NpyDatetime64ToJSON"
    /\ Len(stack) >= 2 /\ stack[Len(stack) - 1].tctx.iterGetName = "NpyArr_iterGetName"

(***************************************************************************)
(* C28: the attribute driver                                               *)
(***************************************************************************)
\* an attribute the attribute driver is to expose: its name does not start
\* with an underscore, it can be fetched, and its value is not callable
IsExposable(attr) ==
    /\ Head(attr.name \o <<NUL>>) # "_"
    /\ attr.value.k # "NULL"
    /\ attr.value.k # "callable"
Exposable(attrs) == SelectSeq(attrs, IsExposable)

\* C28: the attribute driver exposes every attribute whose name does not
\* start with an underscore and whose value is not callable exactly once, as
\* (name, value), in attribute-list order; an attribute is left out only
\* for its underscore, its callable value or its failed fetch.
C28_DirExposesAll ==
    \A i \in 1..Len(stack) :
        LET f == stack[i] IN
        (f.type = "JT_OBJECT" /\ f.tctx.iterBegin = "Dir_iterBegin") =>
            /\ f.pos \in {"iterGetName", "child"} =>
                  /\ f.count < Len(Exposable(f.obj.attrs))
                  /\ f.tctx.itemName = PyBytes(Exposable(f.obj.attrs)[f.count + 1].name)
                  /\ f.tctx.itemValue = Exposable(f.obj.attrs)[f.count + 1].value
            /\ (f.pos \in {"iterEnd", "endTypeContext"} /\ pyErr = "" /\ ~enc.errorMsg) =>
                  f.count = Len(Exposable(f.obj.attrs))

(***************************************************************************)
(* C29 - C30: item references                                              *)
(***************************************************************************)
\* the activation has run its driver's end
HasEnded(f) == IsContainerTag(f.type) /\ f.pos = "endTypeContext"
\* no reference of the activation was released twice or lost so far, and
\* none is owned any more once its end has run
ReferencesBalanced(f) ==
    /\ ~f.tctx.twice
    /\ f.tctx.lost = 0
    /\ HasEnded(f) => (~f.tctx.valueOwned /\ ~f.tctx.nameOwned)
\* the activation walks the leaf phase of a strider over a datetime buffer
IsDatetimeLeaf(f) ==
    /\ IsContainerTag(f.type)
    /\ f.tctx.iterNext = "NpyArr_iterNextItem"
    /\ f.tctx.npyarr # 0
    /\ PyTypeNum_ISDATETIME(npyarrs[f.tctx.npyarr].type_num)

\* C29: for every iterator driver, after begin, any number of next calls
\* and end, no item value or item name reference the driver acquired
\* remains owned and none is released twice.
C29_ReferencesReleasedOnce ==
    \A i \in 1..Len(stack) : ReferencesBalanced(stack[i])

\* every driver but the strider's leaf phase over a datetime buffer
\* releases each reference it acquired exactly once
ReleasedOnceButDatetimeLeaf ==
    \A i \in 1..Len(stack) : ~IsDatetimeLeaf(stack[i]) => ReferencesBalanced(stack[i])

\* C30: in the strider's leaf phase over a datetime buffer each placeholder
\* reference taken by next is released by the following next or by end,
\* for a vector or index wrapping the buffer and for the raw buffer itself.
C30_PlaceholderReleased ==
    \A i \in 1..Len(stack) : IsDatetimeLeaf(stack[i]) => ReferencesBalanced(stack[i])

\* the same for a vector or index wrapping the buffer only
PlaceholderReleasedWhenWrapped ==
    \A i \in 1..Len(stack) :
        (IsDatetimeLeaf(stack[i]) /\ stack[i].obj.k # "ndarray")
            => ReferencesBalanced(stack[i])

(***************************************************************************)
(* C31: when the dispatcher leaves through INVALID, no allocation made for *)
(* that context (materialised values, pre-encoded labels, text buffer) is  *)
(* still live.                                                             *)
(***************************************************************************)
C31_FailedDispatchReleases ==
    lastTc.type = "JT_INVALID" => lastTc.live = {}

(***************************************************************************)
(* C32: the ISO-8601 buffer of a type context is released exactly once.    *)
(***************************************************************************)
\* the activation is about to run end-type, which releases cStr
AwaitsEndType(f) == f.pos = "endTypeContext" /\ f.prv # "NULL"

\* C32: the ISO-8601 buffer that date rendering allocates on a type context
\* (a value's own or the shared staging context) is released exactly once:
\* end-type, which releases the buffer the context points at, never finds
\* a buffer that the failed conversion released already.
C32_IsoBufferReleasedOnce ==
    \A i \in 1..Len(stack) :
        AwaitsEndType(stack[i]) => ContextOf(stack[i]).cStr # FREEDSTR

\* after a conversion that succeeded end-type finds the rendered text, and
\* outside a conversion the staging context holds no buffer
IsoBufferHeldUntilEndType ==
    /\ \A i \in 1..Len(stack) :
          (stack[i].type = "JT_UTF8" /\ AwaitsEndType(stack[i])
           /\ ContextOf(stack[i]).PyTypeToJSON
                  \in {"PyDateTimeToJSON", "NpyDateTimeScalarToJSON", "NpyDatetime64ToJSON"}
           /\ ~enc.errorMsg)
          => ContextOf(stack[i]).cStr \notin {NULLSTR, FREEDSTR}
    /\ (\A i \in 1..Len(stack) : ~(AwaitsEndType(stack[i]) /\ stack[i].prv = "basic"))
          => enc.basicTypeContext.cStr = NULLSTR

(***************************************************************************)
(* C33: a pending error aborts every traversal                             *)
(***************************************************************************)
ErrorPending == pyErr # "" \/ enc.errorMsg
\* the next callback of the top activation returned false
NextReturnedFalse ==
    /\ Len(stack') = Len(stack)
    /\ stack'[Len(stack)].pos = "iterEnd"

\* C33: once an error is pending (the ambient error is set or the encoder's
\* error slot is non-empty) the next callback of every iterator driver
\* returns false, fetching and exposing no further item.
C33_NextAbortsOnError ==
    [][(At("iterNext") /\ ErrorPending) => NextReturnedFalse]_vars

\* the drivers that test for a pending error do abort: Attribute-Dir on
\* either error, the strider on the ambient error
NextAbortsWhereTested ==
    [][(At("iterNext")
        /\ \/ GET_TC.iterNext = "Dir_iterNext" /\ ErrorPending
           \/ GET_TC.iterNext \in {"NpyArr_iterNext", "NpyArr_iterNextItem"} /\ pyErr # "")
       => NextReturnedFalse]_vars

(***************************************************************************)
(* C34: a table driver whose begin failed                                  *)
(***************************************************************************)
\* the activation is a table whose begin returned without its iteration
\* state: no frame slot under a non-Split orientation, no key buffer under
\* Split
TableBeginFailed(f) ==
    /\ f.tctx.iterBegin = "DataFrame_iterBegin"
    /\ f.pos \notin {"begin", "iterBegin"}
    /\ IF f.fmt = "SPLIT" THEN f.tctx.cStr = NULLSTR ELSE f.tctx.frame.isNull

\* C34: when a table driver's begin failed to set up its iteration state,
\* every later next yields no item, end completes and restores the
\* orientation, and neither reads through the absent frame slot nor writes
\* into the absent key buffer (which would end the process).
C34_FailedBeginDrained ==
    \A i \in 1..Len(stack) :
        TableBeginFailed(stack[i]) =>
            /\ pc # "crashed"
            /\ i = Len(stack)
            /\ stack[i].pos \in {"iterNext", "iterEnd", "endTypeContext"}
            /\ stack[i].pos = "endTypeContext" => enc.outputFormat = stack[i].fmt

\* the part of it that the code keeps: no item is exposed after a failed
\* begin, and an end that completes restores the orientation
FailedBeginExposesNothing ==
    \A i \in 1..Len(stack) :
        TableBeginFailed(stack[i]) =>
            /\ i = Len(stack)
            /\ stack[i].pos \in {"iterNext", "iterEnd", "endTypeContext"}
            /\ stack[i].pos = "endTypeContext" => enc.outputFormat = stack[i].fmt

(***************************************************************************)
(* C35 - C36: the pre-encoded labels and the table driver's get-name       *)
(***************************************************************************)
\* quote, body, quote, colon, terminator
HasLabelLayout(l) ==
    /\ Len(l) >= 4
    /\ strlen(l) = Len(l) - 1
    /\ l[1] = "\"" /\ l[Len(l) - 2] = "\"" /\ l[Len(l) - 1] = ":" /\ l[Len(l)] = NUL
LabelBody(l) == SubSeq(l, 2, Len(l) - 3)

\* the body a label value is pre-encoded to: the JSON text of the value,
\* without the quotes when it is a text
ExpectLabelBody(v) ==
    CASE v.k = "int" -> Buffer_AppendLong(v.n)
      [] v.k = "float" -> Buffer_AppendDouble(v.t)
      [] v.k = "str" -> v.s
      [] v.k = "none" -> JsonNull
      [] v.k \in {"datetime", "dt64"} ->
            IF input.iso_dates THEN make_iso_8601_datetime(input.date_unit, v.v)
            ELSE Buffer_AppendLong(CDiv(v.v, UnitDivisor(input.date_unit)))

\* the table activation has pre-encoded labels and has begun
TableWithLabels(f) ==
    /\ f.obj.k = "dataframe" /\ f.fmt \in {"INDEX", "COLUMNS"}
    /\ ~f.tctx.columnLabels.isNull
LabelAxis(f) == IF f.fmt = "INDEX" THEN f.obj.index ELSE f.obj.columns
\* the first label (1-based) get-name has not read yet
FirstUnread(f) == IF f.pos = "iterGetName" THEN f.tctx.index ELSE f.tctx.index + 1

\* C35: every byte slice the label pre-encoder produces is quote, label
\* body, quote, colon, terminator, whether the encoded label began with a
\* quote (text) or not (numbers, epoch dates, null); so the table driver's
\* get-name, dropping the first character and the last two, returns
\* exactly the label body, of length slice length - 3.
C35_LabelLayout ==
    \A i \in 1..Len(stack) :
        /\ (stack[i].obj.k = "series" /\ ~stack[i].tctx.columnLabels.isNull) =>
              \A k \in 1..Len(stack[i].tctx.columnLabels.arr) :
                  /\ HasLabelLayout(stack[i].tctx.columnLabels.arr[k])
                  /\ LabelBody(stack[i].tctx.columnLabels.arr[k])
                        = ExpectLabelBody(IndexLabel(stack[i].obj.index, k))
        /\ TableWithLabels(stack[i]) =>
            \A k \in FirstUnread(stack[i])..Len(stack[i].tctx.columnLabels.arr) :
                LET l == stack[i].tctx.columnLabels.arr[k] IN
                /\ HasLabelLayout(l)
                /\ LabelBody(l) = ExpectLabelBody(IndexLabel(LabelAxis(stack[i]), k))
                /\ DataFrame_labelName(l).name = LabelBody(l)
                /\ DataFrame_labelName(l).outLen = strlen(l) - 3
                /\ DataFrame_labelName(l).outLen = Len(LabelBody(l))
\* get-name has returned the key of a null label and of an epoch date label,
\* neither of which was encoded with quotes
C35_Witness ==
    /\ input.param.root = "labelkinds" /\ input.param.kind = "nulldate"
    /\ ~input.param.iso
    /\ Len(stack) = 3 /\ TableWithLabels(stack[2]) /\ stack[2].pos = "child"
    /\ stack[2].tctx.index = 2
    /\ out = <<"[", "{", "\"", "n", "u", "l", "l", "\"", ":", "{", "\"", "0", "\"", ":",
               "1", "}", ",", "\"", "1", "5", "0", "0", "\"", ":">>

\* the table driver's get-name acts under Index or Columns and returns
GetNameReadsLabel ==
    /\ At("iterGetName") /\ TOP.tctx.iterGetName = "DataFrame_iterGetName"
    /\ enc.originalOutputFormat \in {"INDEX", "COLUMNS"}
    /\ pc' # "crashed"

\* C36: the table driver's get-name under Index / Columns leaves the
\* pre-encoded label array unchanged: no byte of any label is modified, so
\* reading the key of the same step again returns the same key and length.
C36_GetNameKeepsLabels ==
    [][GetNameReadsLabel =>
          LET before == TOP.tctx.columnLabels.arr[DataFrame_labelIndex(TOP.tctx) + 1]
              after == stack'[Len(stack)].tctx.columnLabels.arr[
                           DataFrame_labelIndex(TOP.tctx) + 1]
          IN /\ stack'[Len(stack)].tctx.columnLabels = TOP.tctx.columnLabels
             /\ DataFrame_labelName(after).name = DataFrame_labelName(before).name
             /\ DataFrame_labelName(after).outLen = DataFrame_labelName(before).outLen]_vars

\* get-name changes no label but the one it reads
GetNameKeepsOtherLabels ==
    [][GetNameReadsLabel =>
          \A k \in 1..Len(TOP.tctx.columnLabels.arr) :
              k # DataFrame_labelIndex(TOP.tctx) + 1 =>
                  stack'[Len(stack)].tctx.columnLabels.arr[k] = TOP.tctx.columnLabels.arr[k]]_vars

(***************************************************************************)
(* C37: durations                                                          *)
(***************************************************************************)
\* q is v / d truncated toward zero: the remainder is smaller than d in
\* magnitude and has the sign of v
IsTruncatedQuotient(q, v, d) ==
    /\ IF v >= 0 THEN v - q * d >= 0 /\ v - q * d < d
       ELSE v - q * d <= 0 /\ q * d - v < d
    /\ (v >= 0 => q >= 0) /\ (v <= 0 => q <= 0)

\* the dispatcher classified a duration with a cached nanosecond value
\* other than the sentinel
DurationDispatched ==
    /\ lastTc.type # "NONE" /\ lastTc.obj.k = "timedelta"
    /\ lastTc.obj.hasValue /\ lastTc.obj.v # get_nat
    /\ lastTc.pending = ""

DateShapeTag(nat, iso) == IF nat THEN "JT_NULL" ELSE IF iso THEN "JT_UTF8" ELSE "JT_LONG"
\* the path the datetime last classified came by
DatePath ==
    IF lastTc.staged THEN "staged"
    ELSE IF lastTc.obj.k = "dt64" THEN "scalar" ELSE "calendar"
DatetimeDispatched ==
    lastTc.type # "NONE" /\ lastTc.obj.k \in {"datetime", "dt64"}

\* C38: for the same ISO flag, a datetime gets the same shape tag whether it
\* arrives as a staged array element, as a datetime64 scalar or as a
\* calendar date/time object: null if it is not-a-time, UTF-8 if the ISO
\* flag is set, long otherwise.
C38_DatePathsAgree ==
    DatetimeDispatched =>
        /\ lastTc.staged => lastTc.obj.k = "dt64"
        /\ lastTc.type = DateShapeTag(IsNotATime(lastTc.obj), input.iso_dates)
        /\ enc.datetimeIso = input.iso_dates
\* a staged array element tagged UTF-8 under the ISO flag
C38_Witness ==
    /\ DatetimeDispatched /\ DatePath = "staged"
    /\ input.iso_dates /\ ~IsNotATime(lastTc.obj)
    /\ lastTc.type = "JT_UTF8"

(***************************************************************************)
(* C39: the vector-as-object driver scopes its orientation change          *)
(***************************************************************************)
\* the activation at depth i runs the vector-as-object driver
IsVectorObject(i) == stack[i].tctx.iterBegin = "Series_iterBegin"
\* every child of a vector-as-object driver is entered under Values
VectorChildrenUnderValues ==
    pc = "encode" =>
        \A i \in 1..(Len(stack) - 1) :
            (IsVectorObject(i) /\ stack[i + 1].pos = "begin")
                => enc.outputFormat = "VALUES"
\* the vector-as-object driver is begun only under Split
VectorObjectOnlyUnderSplit ==
    (At("iterBegin") /\ IsVectorObject(Len(stack))) => enc.outputFormat = "SPLIT"

\* C39: the vector-as-object driver is entered only under Split, its
\* children are encoded under Values, and once its end has returned the
\* orientation is Split again whatever its name, index and data contained,
\* tables included, so that a following sibling vector of the same list
\* is again given the vector-as-object driver.
C39_VectorScopesOrientation ==
    /\ VectorObjectOnlyUnderSplit
    /\ VectorChildrenUnderValues
    /\ (At("endTypeContext") /\ IsVectorObject(Len(stack)))
          => enc.outputFormat = "SPLIT"
    /\ (RootIs("list", "SPLIT") /\ ChildTagged("series")) => IsVectorObject(2)
\* the second of two sibling vectors is classified under Values
SiblingVectorLosesSplit ==
    /\ RootIs("list", "SPLIT") /\ ChildTagged("series")
    /\ stack[1].count = 1 /\ ~IsVectorObject(2)
    /\ stack[2].tctx.iterBegin = "NpyArr_iterBegin"

(***************************************************************************)
(* C40: the life of a strider                                              *)
(***************************************************************************)
\* the activation allocated its strider in its own begin
OwnsStrider(f) == f.tctx.iterBegin = "NpyArr_iterBegin" /\ f.tctx.npyarr # 0
\* the activation took its strider from the passthrough slot
ReusesStrider(f) == f.tctx.iterBegin = "NpyArrPassThru_iterBegin"
\* a callback of the activation that reads its strider is still to run
StriderCallbackAhead(f) == f.pos \in {"iterNext", "iterGetName", "child", "iterEnd"}

\* every strider is owned by the context whose begin allocated it, is freed
\* at most once and by that context's end, and none is left when the call
\* is over
StriderFreedOnceByOwner ==
    \A id \in DOMAIN npyarrs :
        LET s == npyarrs[id] IN
        /\ s.frees <= 1 /\ (s.live <=> s.frees = 0)
        /\ s.frees = 1 => s.freedBy = s.owner
        /\ (s.live /\ pc = "encode") =>
              /\ s.owner \in 1..Len(stack)
              /\ OwnsStrider(stack[s.owner]) /\ stack[s.owner].tctx.npyarr = id
        /\ pc \in {"encoded", "done"} => ~s.live
\* a passthrough child holds a strider allocated by a context below it, and
\* that strider stays allocated until the child is gone
StriderOutlivesChildren ==
    pc = "encode" =>
        \A i \in 1..Len(stack) :
            ReusesStrider(stack[i]) =>
                /\ stack[i].tctx.npyarr \in DOMAIN npyarrs
                /\ npyarrs[stack[i].tctx.npyarr].live
                /\ npyarrs[stack[i].tctx.npyarr].owner < i
\* no callback that is still to run reads a freed strider: neither a driver
\* callback through its context nor the dispatcher through the passthrough
\* slot
NoStriderUseAfterFree ==
    pc = "encode" =>
        /\ \A i \in 1..Len(stack) :
              (stack[i].tctx.npyarr # 0 /\ StriderCallbackAhead(stack[i]))
                  => npyarrs[stack[i].tctx.npyarr].live
        /\ (At("begin") /\ ~enc.errorMsg /\ enc.npyCtxtPassthru # 0)
              => npyarrs[enc.npyCtxtPassthru].live

\* C40: a strider is freed exactly once, by the end callback of the context
\* whose begin allocated it, and only after every child context that reused
\* it through the passthrough has ended; a passthrough child's begin never
\* allocates a strider and its end never frees one, and no callback uses a
\* strider after it was freed.
C40_StriderLifecycle ==
    /\ StriderFreedOnceByOwner
    /\ StriderOutlivesChildren
    /\ NoStriderUseAfterFree
\* a 3-dimensional array is done: one strider, two passthrough levels deep
\* at its deepest, freed once by the root context
C40_Witness ==
    /\ Finished /\ result = "text"
    /\ input.obj.k = "ndarray" /\ PyArray_NDIM(input.obj) = 3
    /\ Len(npyarrs) = 1
    /\ npyarrs[1].frees = 1 /\ npyarrs[1].freedBy = 1 /\ npyarrs[1].owner = 1
    /\ Len(npyarrs[1].emitted) > 0

====
